---- MODULE Spec2Model ----
(***************************************************************************)
(* Event deduplication service: the cache lock (Deduplicator), the         *)
(* repository (EventRepository.save_event / is_duplicate), the synchronous *)
(* endpoint POST /events/unique/, the queueing endpoint POST /events/ and  *)
(* the consumer worker (handle_event_message); the external                *)
(* synchronisation (handle_sync_message, _fetch_external_events), the      *)
(* middlewares of the application, GET /events/health, and the start and   *)
(* end of the two processes (lifespan of the API, main of the worker);     *)
(* the listing GET /events/sort, the script that recreates the tables,     *)
(* the time-to-live of the lock keys, and the pure functions of the        *)
(* payload: parse_datetime, deep_clean, fix_invalid_json, the extraction   *)
(* of the timestamps and the fingerprint EventHashService.generate, the    *)
(* validation of a payload (EventCreate), the answers to an exception,     *)
(* the smoke test of the worker (tests/test_worker.py) and the             *)
(* cancellation of a save.                                                 *)
(*                                                                         *)
(* A Python value is a record of its type, its text and its members; the   *)
(* library calls on texts (strip, fromisoformat, strptime, re.search) are  *)
(* given by what they return for the texts the payloads are made of.       *)
(*                                                                         *)
(* The cache (Redis) is the set of lock keys, the store (PostgreSQL) the   *)
(* number of rows of table events per event_hash, the broker (RabbitMQ)    *)
(* the messages with their queue and settlement.  Every await of a handler *)
(* that reads or writes the cache, the store or the broker is one step of  *)
(* the task that runs it; an await that touches no shared state is folded  *)
(* into the step before it.  A call to the cache, the store or the broker  *)
(* may fail: the step draws ok from the set F of outcomes the              *)
(* specification allows (BOOLEAN, or {TRUE} when every dependency is       *)
(* available).  The first settlement of a delivery (ack, reject) does not  *)
(* fail; a second one raises and reaches the broker no more.               *)
(*                                                                         *)
(* A fingerprint is an element of Hashes; equal events have equal          *)
(* fingerprints.  PostgresEventRepository.create_event, the fingerprint    *)
(* function generate_unique_fingerprint and Deduplicator.mark_processed    *)
(* are called by the sources but defined in none of them; they are         *)
(* modelled from the specification of the service.                         *)
(***************************************************************************)
EXTENDS Integers, FiniteSets, Sequences, TLC

\* ---------------------------------------------------------------- bounds
NumTasks == 2   \* concurrent tasks: request handlers and worker deliveries
MaxCalls == 2   \* requests and publications begun in one run, over all tasks
MaxPage == 2    \* items in one page of the external source

Tasks  == 1..NumTasks
MsgIds == 1..MaxCalls     \* every message is published by one call
NoMsg  == MaxCalls + 1    \* no delivery

\* Fingerprints.  The service only ever compares them for equality, so what
\* it does with an event depends on which earlier events had the same
\* fingerprint and on nothing else: one fingerprint and another one give
\* every case of "the same event again" and "a different event".
Hashes == {"h1", "h2"}
NoHash == "none"          \* a task at rest, a body without a fingerprint

\* ------------------------------------------------------------- constants
\* POST /events/ publishes with this routing key
ROUTING_KEY_OTHER == "events"
ROUTING_KEY == "events_queue"

\* POST /events/ publishes with delivery_mode=DeliveryMode.PERSISTENT
DELIVERY_MODE_DEFAULT == "NOT_PERSISTENT"
DELIVERY_MODE == "PERSISTENT"

\* the queue the worker declares and consumes
EVENTS_QUEUE == "events_queue"

\* message.process() rejects with requeue=False, as does nack(requeue=False)
REQUEUE_TRUE == TRUE
REQUEUE == FALSE

VARIABLES
    cache,           \* Redis: the set of event_hash keys holding a lock
    ttl,             \* Redis: the seconds each lock key has left to live
    rowCount,        \* PostgreSQL: rows of table events per event_hash
    msgs,            \* broker: every message with its settlement
    pc,              \* each task's position in the handler it runs
    hash,            \* the event_hash the task works on
    cur,             \* the message the task was delivered (worker)
    err,             \* the exception the task is unwinding with
    acq,             \* what the task's check_and_lock returned
    result,          \* what the finished call returned or responded
    retRow,          \* whether the finished call returned the persisted row
    insertedRow,     \* whether the running call has inserted a row
    retry,           \* history: the call repeats one whose save was rolled back
    unique_counter,  \* EventRepository.unique_counter, one instance per task
    started,         \* history: the calls begun so far
    winners,         \* history: true returns of check_and_lock per live key
    request,         \* the HTTP request the task answers, as the middlewares see it
    sync,            \* worker: the external_sync_queue delivery and its fetch
    apiProc,         \* the API process: its lifespan and the handles it holds
    workerProc,      \* the worker process: main() and the handles it holds
    pure             \* a call of one of the pure functions: argument and result

vars == <<cache, ttl, rowCount, msgs, pc, hash, cur, err, acq, result, retRow,
          insertedRow, retry, unique_counter, started, winners,
          request, sync, apiProc, workerProc, pure>>

\* ------------------------------------------------------- cache and store

\* redis.set(name=event_hash, value=1, nx=True, ex=604800): set if absent
check_and_lock_no_nx(c, h) == [cache |-> c \cup {h}, ret |-> TRUE]
check_and_lock(c, h) == [cache |-> c \cup {h}, ret |-> h \notin c]

\* redis.delete(event_hash): the rollback of the lock
rollback_keep(c, h) == c
rollback_lock(c, h) == c \ {h}

\* redis.exists(event_hash)
redis_exists(c, h) == h \in c

\* ex=604800: the time-to-live of a lock key, in seconds (7 days)
LOCK_EX == 604800

\* the time-to-live after redis.set(name, value=1, nx=True, ex=604800): a
\* key that exists is left as it is, with the seconds it has left
redis_set_ex(tl, h) == [tl EXCEPT ![h] = LOCK_EX]
redis_set_nx_ex(tl, h) == IF tl[h] > 0 THEN tl ELSE [tl EXCEPT ![h] = LOCK_EX]

\* the time-to-live after redis.delete(event_hash): the key is gone
redis_delete(tl, h) == [tl EXCEPT ![h] = 0]

\* the time-to-live after Deduplicator.mark_processed(event_hash): the key
\* is set anew, with the whole time-to-live
mark_processed_ex(tl, h) == [tl EXCEPT ![h] = LOCK_EX]

\* INSERT into events: event_hash is unique=True, a second row is refused
insert_event_no_unique(rc, h) == [ok |-> TRUE, rows |-> [rc EXCEPT ![h] = @ + 1]]
insert_event(rc, h) ==
    IF rc[h] > 0 THEN [ok |-> FALSE, rows |-> rc]
                 ELSE [ok |-> TRUE,  rows |-> [rc EXCEPT ![h] = @ + 1]]

\* select(Event.id).where(Event.event_hash == event_hash).limit(1)
always_absent(rc, h) == FALSE
_check_postgres_duplicate(rc, h) == rc[h] > 0

\* Deduplicator.mark_processed(event_hash): sets the key with the same TTL
mark_processed(c, h) == c \cup {h}

\* EventBase.preprocess_and_hash applied to a body that POST /events/ has
\* published: the validator takes the whole body (event_type, raw_data,
\* timestamps, event_hash) as raw_data and fingerprints that, so the worker
\* works on another fingerprint than the one the endpoint answered with;
\* distinct events keep distinct fingerprints
preprocess_and_hash(h) == IF h = "h1" THEN "h2" ELSE "h1"

\* a task that answers no HTTP request
NoRequest == [path |-> "none", method |-> "none", body |-> "none",
              down |-> {}, detail |-> "none", handled |-> FALSE,
              page |-> {}, per_page |-> {}, offset |-> 0, limit |-> 0,
              count |-> 0, queried |-> FALSE]

\* no trigger message on external_sync_queue
NoSync == [msg |-> "none", pc |-> "idle", fetch |-> "none", page |-> <<>>,
           pos |-> 0, raised |-> "none", rows |-> {}, settles |-> 0]

\* a process that was not started: it holds no handle, none of the database
\* engine's pool, of the cache client or of the broker connection
NoProc == [pc |-> "off", engine |-> "none", redis |-> "none",
           rabbit |-> "none", raised |-> "none"]

\* ------------------------------------------------ values of the payloads

\* a Python value: its type, its text (str, int, datetime), its members
\* (list: the elements; dict: the items in insertion order)
Val(t, s, kids) == [t |-> t, s |-> s, kids |-> kids]
PyNone == Val("NoneType", "", <<>>)
PyStr(s) == Val("str", s, <<>>)
PyInt(s) == Val("int", s, <<>>)
PyDatetime(s) == Val("datetime", s, <<>>)
PyList(items) == Val("list", "", items)
PyDict(items) == Val("dict", "", items)
Item(k, v) == [k |-> k, v |-> v]

\* a call that ends with an exception
Raised(e) == Val("raise", e, <<>>)

\* no pure function is being called
NoPure == [fn |-> "none", arg |-> PyNone, alt |-> PyNone, out |-> PyNone,
           done |-> FALSE]

\* a lock key that leaves the cache starts its count of winners anew
Released(w, c1, c2) == [h \in Hashes |-> IF h \in c1 /\ h \notin c2 THEN 0 ELSE w[h]]

\* a task can take a call when its last one has ended, or when it is the
\* first of the tasks that never ran (those are all alike)
Free(t) ==
    \/ pc[t] = "done"
    \/ pc[t] = "idle" /\ \A u \in Tasks : u < t => pc[u] # "idle"

\* a task begins a call: its locals are those of the new call
Begin(t, label, h, m, again, res) ==
    /\ pc' = [pc EXCEPT ![t] = label]
    /\ hash' = [hash EXCEPT ![t] = h]
    /\ cur' = [cur EXCEPT ![t] = m]
    /\ err' = [err EXCEPT ![t] = "none"]
    /\ acq' = [acq EXCEPT ![t] = "none"]
    /\ result' = [result EXCEPT ![t] = res]
    /\ retRow' = [retRow EXCEPT ![t] = FALSE]
    /\ insertedRow' = [insertedRow EXCEPT ![t] = FALSE]
    /\ retry' = [retry EXCEPT ![t] = again]
    /\ request' = [request EXCEPT ![t] = NoRequest]

\* a caller makes one more call
Call ==
    /\ started < MaxCalls
    /\ started' = started + 1

\* a call ends: what it returned, or the error it raised, is its result
Finish(t, res, row) ==
    /\ pc' = [pc EXCEPT ![t] = "done"]
    /\ result' = [result EXCEPT ![t] = res]
    /\ retRow' = [retRow EXCEPT ![t] = row]
    /\ err' = [err EXCEPT ![t] = "none"]

Raise(t, e, label) ==
    /\ err' = [err EXCEPT ![t] = e]
    /\ pc' = [pc EXCEPT ![t] = label]

InitSystem ==
    /\ cache = {}
    /\ ttl = [h \in Hashes |-> 0]
    /\ rowCount = [h \in Hashes |-> 0]
    /\ msgs = [m \in MsgIds |-> [state |-> "none", hash |-> NoHash,
                                 valid |-> FALSE, api |-> FALSE,
                                 mode |-> "none", key |-> "none",
                                 outcome |-> "none", persisted |-> FALSE,
                     settles |-> 0]]
    /\ pc = [t \in Tasks |-> "idle"]
    /\ hash = [t \in Tasks |-> NoHash]
    /\ cur = [t \in Tasks |-> NoMsg]
    /\ err = [t \in Tasks |-> "none"]
    /\ acq = [t \in Tasks |-> "none"]
    /\ result = [t \in Tasks |-> "none"]
    /\ retRow = [t \in Tasks |-> FALSE]
    /\ insertedRow = [t \in Tasks |-> FALSE]
    /\ retry = [t \in Tasks |-> FALSE]
    /\ unique_counter = [t \in Tasks |-> 0]
    /\ started = 0
    /\ winners = [h \in Hashes |-> 0]
    /\ request = [t \in Tasks |-> NoRequest]
    /\ sync = NoSync
    /\ apiProc = NoProc
    /\ workerProc = NoProc

Init ==
    /\ InitSystem
    /\ pure = NoPure

\* ------------------------------------------ EventRepository.save_event

\* save_event(event_data): the fingerprint is computed, safe_save begins
save_event(t, h) ==
    /\ Free(t)
    /\ Call
    /\ Begin(t, "ss_lock", h, NoMsg,
             result[t] = "DeduplicationError" /\ acq[t] = "true" /\ hash[t] = h,
             "none")
    /\ UNCHANGED <<cache, ttl, rowCount, msgs, unique_counter, winners,
                   sync, apiProc, workerProc, pure>>

\* `if await self.check_and_lock(event_hash):` in safe_save, `if not
\* is_new:` in create_event_unique: the callback, or the insert, runs when
\* check_and_lock returned True
is_new_always(ret) == TRUE
is_new(ret) == ret

\* safe_save: if await self.check_and_lock(event_hash).  A cache failure is
\* raised as DeduplicationError, which safe_save's own except catches.  A
\* false return ends safe_save with None, and save_event goes on to count
\* the call and to return (None, "saved").
safe_save_lock(t, F) ==
    /\ pc[t] = "ss_lock"
    /\ \E ok \in F :
        IF ~ok
        THEN /\ Raise(t, "DeduplicationError", "ss_rollback")
             /\ UNCHANGED <<cache, ttl, acq, result, retRow, unique_counter, winners>>
        ELSE LET r == check_and_lock(cache, hash[t]) IN
             /\ cache' = r.cache
             /\ ttl' = redis_set_nx_ex(ttl, hash[t])
             /\ acq' = [acq EXCEPT ![t] = IF r.ret THEN "true" ELSE "false"]
             /\ winners' = [winners EXCEPT ![hash[t]] = IF r.ret THEN @ + 1 ELSE @]
             /\ IF is_new(r.ret)
                THEN /\ pc' = [pc EXCEPT ![t] = "ss_commit"]
                     /\ UNCHANGED <<err, result, retRow, unique_counter>>
                ELSE /\ Finish(t, "saved", FALSE)
                     /\ unique_counter' = [unique_counter EXCEPT ![t] = @ + 1]
    /\ UNCHANGED <<rowCount, msgs, hash, cur, insertedRow, retry, started,
                   request, sync, apiProc, workerProc, pure>>

\* _save_to_db: db.add, await db.commit(), await db.refresh(u_event); then
\* safe_save returns None and save_event counts and returns (None, "saved")
safe_save_callback(t, F) ==
    /\ pc[t] = "ss_commit"
    /\ \E ok \in F, ok2 \in F :
        LET r == insert_event(rowCount, hash[t]) IN
        IF ok /\ r.ok
        THEN /\ rowCount' = r.rows
             /\ insertedRow' = [insertedRow EXCEPT ![t] = TRUE]
             /\ IF ok2
                THEN /\ Finish(t, "saved", FALSE)
                     /\ unique_counter' = [unique_counter EXCEPT ![t] = @ + 1]
                ELSE /\ Raise(t, "StoreError", "ss_rollback")
                     /\ UNCHANGED <<result, retRow, unique_counter>>
        ELSE /\ Raise(t, IF ok THEN "IntegrityError" ELSE "StoreError", "ss_rollback")
             /\ UNCHANGED <<rowCount, insertedRow, result, retRow, unique_counter>>
    /\ UNCHANGED <<cache, ttl, msgs, hash, cur, acq, retry, winners, started,
                   request, sync, apiProc, workerProc, pure>>

\* safe_save: except Exception: await self.redis.delete(event_hash); raise
\* DeduplicationError.  A failing delete leaves the handler with the cache
\* client's own exception.  save_event's except rolls the session back and
\* re-raises what it caught.
safe_save_rollback(t, F) ==
    /\ pc[t] = "ss_rollback"
    /\ \E ok \in F :
        IF ok
        THEN /\ cache' = rollback_lock(cache, hash[t])
             /\ ttl' = redis_delete(ttl, hash[t])
             /\ winners' = Released(winners, cache, cache')
             /\ Finish(t, "DeduplicationError", FALSE)
        ELSE /\ Finish(t, "CacheError", FALSE)
             /\ UNCHANGED <<cache, ttl, winners>>
    /\ UNCHANGED <<rowCount, msgs, hash, cur, acq, insertedRow, retry,
                   unique_counter, started,
                   request, sync, apiProc, workerProc, pure>>

\* the task of a save is cancelled, or its process ends, at one of its
\* awaits: CancelledError is no Exception, so neither safe_save's, nor
\* save_event's, nor the endpoint's except clause runs, and the call ends
\* where it stands
cancel(t) ==
    /\ pc[t] \in {"ss_lock", "ss_commit", "ss_rollback",
                  "u_lock", "u_commit", "u_mark", "u_fail"}
    /\ Finish(t, "CancelledError", FALSE)
    /\ UNCHANGED <<cache, ttl, rowCount, msgs, hash, cur, acq, insertedRow,
                   retry, unique_counter, started, winners,
                   request, sync, apiProc, workerProc, pure>>

\* the lock key reaches its time-to-live of 604800 seconds
Expire(h) ==
    /\ h \in cache
    /\ cache' = cache \ {h}
    /\ ttl' = redis_delete(ttl, h)
    /\ winners' = Released(winners, cache, cache')
    /\ UNCHANGED <<rowCount, msgs, pc, hash, cur, err, acq, result, retRow,
                   insertedRow, retry, unique_counter, started,
                   request, sync, apiProc, workerProc, pure>>

\* the steps of the clock in one time-to-live
TicksPerLock == 2

TickLen == LOCK_EX \div TicksPerLock

\* the seconds a key has left after d more seconds: none when its
\* time-to-live is used up
remaining(s, d) == IF s > d THEN s - d ELSE 0

\* TickLen seconds pass: Redis counts every key's time-to-live down and
\* drops the keys whose time-to-live is used up
Tick ==
    /\ cache # {}
    /\ ttl' = [h \in Hashes |-> remaining(ttl[h], TickLen)]
    /\ cache' = {h \in cache : ttl'[h] > 0}
    /\ winners' = Released(winners, cache, cache')
    /\ UNCHANGED <<rowCount, msgs, pc, hash, cur, err, acq, result, retRow,
                   insertedRow, retry, unique_counter, started,
                   request, sync, apiProc, workerProc, pure>>

\* ---------------------------------------- EventRepository.is_duplicate

\* is_duplicate(event_hash): if await self.redis.exists(event_hash): return
\* True.  Nothing catches a failure of the cache client here.
is_duplicate(t, h) ==
    /\ Free(t)
    /\ Call
    /\ Begin(t, "id_cache", h, NoMsg, FALSE, "none")
    /\ UNCHANGED <<cache, ttl, rowCount, msgs, unique_counter, winners,
                   sync, apiProc, workerProc, pure>>

is_duplicate_cache(t, F) ==
    /\ pc[t] = "id_cache"
    /\ \E ok \in F :
        IF ~ok THEN Finish(t, "CacheError", FALSE)
        ELSE IF redis_exists(cache, hash[t]) THEN Finish(t, "True", FALSE)
        ELSE /\ pc' = [pc EXCEPT ![t] = "id_store"]
             /\ UNCHANGED <<err, result, retRow>>
    /\ UNCHANGED <<cache, ttl, rowCount, msgs, hash, cur, acq, insertedRow, retry,
                   unique_counter, winners, started,
                   request, sync, apiProc, workerProc, pure>>

\* return await self._check_postgres_duplicate(event_hash)
is_duplicate_store(t, F) ==
    /\ pc[t] = "id_store"
    /\ \E ok \in F :
        IF ~ok THEN Finish(t, "StoreError", FALSE)
        ELSE Finish(t, IF _check_postgres_duplicate(rowCount, hash[t])
                       THEN "True" ELSE "False", FALSE)
    /\ UNCHANGED <<cache, ttl, rowCount, msgs, hash, cur, acq, insertedRow, retry,
                   unique_counter, winners, started,
                   request, sync, apiProc, workerProc, pure>>

\* ------------------------------------- POST /events/unique/ (the router)

\* create_event_unique(event_data): the fingerprint is computed first; a
\* HashGenerationError answers 422, any other exception leaves the handler
\* (500), in both cases before the cache is asked
create_event_unique(t, h) ==
    /\ Free(t)
    /\ Call
    /\ \E fp \in {"ok", "422", "500"} :
        Begin(t, IF fp = "ok" THEN "u_lock" ELSE "done", h, NoMsg, FALSE,
              IF fp = "ok" THEN "none" ELSE fp)
    /\ UNCHANGED <<cache, ttl, rowCount, msgs, unique_counter, winners,
                   sync, apiProc, workerProc, pure>>

\* is_new = await deduplicator.check_and_lock(event_hash), outside any try:
\* a DeduplicationError leaves the handler (500).  Not new: the row count is
\* read and 409 is raised.
unique_lock(t, F) ==
    /\ pc[t] = "u_lock"
    /\ \E ok \in F, ok2 \in F :
        IF ~ok
        THEN /\ Finish(t, "500", FALSE)
             /\ UNCHANGED <<cache, ttl, acq, winners>>
        ELSE LET r == check_and_lock(cache, hash[t]) IN
             /\ cache' = r.cache
             /\ ttl' = redis_set_nx_ex(ttl, hash[t])
             /\ acq' = [acq EXCEPT ![t] = IF r.ret THEN "true" ELSE "false"]
             /\ winners' = [winners EXCEPT ![hash[t]] = IF r.ret THEN @ + 1 ELSE @]
             /\ IF is_new(r.ret)
                THEN /\ pc' = [pc EXCEPT ![t] = "u_commit"]
                     /\ UNCHANGED <<err, result, retRow>>
                ELSE Finish(t, IF ok2 THEN "409" ELSE "500", FALSE)
    /\ UNCHANGED <<rowCount, msgs, hash, cur, insertedRow, retry, unique_counter,
                   started,
                   request, sync, apiProc, workerProc, pure>>

\* db.add(db_event); await db.commit(); await db.refresh(db_event)
unique_commit(t, F) ==
    /\ pc[t] = "u_commit"
    /\ \E ok \in F, ok2 \in F :
        LET r == insert_event(rowCount, hash[t]) IN
        IF ok /\ r.ok
        THEN /\ rowCount' = r.rows
             /\ insertedRow' = [insertedRow EXCEPT ![t] = TRUE]
             /\ IF ok2 THEN /\ pc' = [pc EXCEPT ![t] = "u_mark"]
                            /\ err' = err
                       ELSE Raise(t, "StoreError", "u_fail")
        ELSE /\ Raise(t, IF ok THEN "IntegrityError" ELSE "StoreError", "u_fail")
             /\ UNCHANGED <<rowCount, insertedRow>>
    /\ UNCHANGED <<cache, ttl, msgs, hash, cur, acq, result, retRow, retry,
                   unique_counter, winners, started,
                   request, sync, apiProc, workerProc, pure>>

\* await deduplicator.mark_processed(event_hash); then the two statistics
\* queries and the 201 response
unique_mark(t, F) ==
    /\ pc[t] = "u_mark"
    /\ \E ok \in F, ok2 \in F :
        IF ~ok
        THEN /\ Raise(t, "DeduplicationError", "u_fail")
             /\ UNCHANGED <<cache, ttl, result, retRow>>
        ELSE /\ cache' = mark_processed(cache, hash[t])
             /\ ttl' = mark_processed_ex(ttl, hash[t])
             /\ IF ok2 THEN Finish(t, "201", TRUE)
                       ELSE /\ Raise(t, "StoreError", "u_fail")
                            /\ UNCHANGED <<result, retRow>>
    /\ UNCHANGED <<rowCount, msgs, hash, cur, acq, insertedRow, retry,
                   unique_counter, winners, started,
                   request, sync, apiProc, workerProc, pure>>

\* except Exception: await db.rollback(); await redis.delete(event_hash);
\* raise HTTPException(500).  A failing delete ends with 500 as well.
unique_fail(t, F) ==
    /\ pc[t] = "u_fail"
    /\ \E ok \in F :
        /\ cache' = IF ok THEN rollback_lock(cache, hash[t]) ELSE cache
        /\ ttl' = IF ok THEN redis_delete(ttl, hash[t]) ELSE ttl
        /\ winners' = Released(winners, cache, cache')
        /\ Finish(t, "500", FALSE)
    /\ UNCHANGED <<rowCount, msgs, hash, cur, acq, insertedRow, retry,
                   unique_counter, started,
                   request, sync, apiProc, workerProc, pure>>

\* ------------------------------------------- POST /events/ (the router)

FreeMsgs == {m \in MsgIds : msgs[m].state = "none"}
NextMsg == CHOOSE m \in FreeMsgs : \A n \in FreeMsgs : m <= n

\* the default exchange hands a message to the queue named by its routing key
Routed(key) == IF key = EVENTS_QUEUE THEN "ready" ELSE "unroutable"

\* what POST /events/ answers with, by what failed.  A failing
\* connect_robust makes the dependency get_rabbitmq raise MessageQueueError
\* before the handler body runs; that is no HTTPException, so it passes the
\* router and is answered by add_process_time_header.
create_event_status(cause) ==
    CASE cause = "connect"    -> "500"
      [] cause = "other"      -> "500"
      [] cause = "validation" -> "422"
      [] cause = "publish"    -> "503"
      [] OTHER                -> "202"

\* the lock keys POST /events/ leaves in the cache: the handler never calls
\* the deduplicator
create_event_locks_taken(c, h) == c \cup {h}
create_event_locks(c, h) == c

\* create_event(payload): the dependency get_rabbitmq connects, the payload
\* is preprocessed and checked (any exception but ValidationError is
\* answered 500), validated (422), published on the default exchange (503
\* when the channel or the publish fails), and the answer is 202
create_event(t, h, F) ==
    /\ Free(t)
    /\ FreeMsgs # {}
    /\ Call
    /\ \E conn \in F, pre \in F, valid \in BOOLEAN, ok \in F :
        LET cause == IF ~conn THEN "connect"
                     ELSE IF ~pre THEN "other"
                     ELSE IF ~valid THEN "validation"
                     ELSE IF ~ok THEN "publish"
                     ELSE "none"
        IN
        /\ pc' = [pc EXCEPT ![t] = "done"]
        /\ hash' = [hash EXCEPT ![t] = h]
        /\ cur' = [cur EXCEPT ![t] = NoMsg]
        /\ err' = [err EXCEPT ![t] = cause]
        /\ acq' = [acq EXCEPT ![t] = "none"]
        /\ result' = [result EXCEPT ![t] = create_event_status(cause)]
        /\ retRow' = [retRow EXCEPT ![t] = FALSE]
        /\ insertedRow' = [insertedRow EXCEPT ![t] = FALSE]
        /\ retry' = [retry EXCEPT ![t] = FALSE]
        /\ request' = [request EXCEPT ![t] = NoRequest]
        /\ IF cause = "none"
           THEN msgs' = [msgs EXCEPT ![NextMsg] =
                    [state |-> Routed(ROUTING_KEY), hash |-> h, valid |-> TRUE,
                     api |-> TRUE, mode |-> DELIVERY_MODE, key |-> ROUTING_KEY,
                     outcome |-> "none", persisted |-> FALSE,
                     settles |-> 0]]
           ELSE msgs' = msgs
    /\ cache' = create_event_locks(cache, h)
    /\ ttl' = ttl
    /\ UNCHANGED <<rowCount, unique_counter, winners, sync, apiProc, workerProc,
                   pure>>

\* another publisher leaves a body on events_queue that is no valid event
publish_invalid ==
    /\ FreeMsgs # {}
    /\ Call
    /\ msgs' = [msgs EXCEPT ![NextMsg] =
                    [state |-> "ready", hash |-> NoHash, valid |-> FALSE,
                     api |-> FALSE, mode |-> "NOT_PERSISTENT",
                     key |-> EVENTS_QUEUE,
                     outcome |-> "none", persisted |-> FALSE,
                     settles |-> 0]]
    /\ UNCHANGED <<cache, ttl, rowCount, pc, hash, cur, err, acq, result, retRow,
                   insertedRow, retry, unique_counter, winners,
                   request, sync, apiProc, workerProc, pure>>

\* --------------------------------------------- tests/test_worker.py

\* the queue send_test_message deletes, declares and publishes to
TEST_QUEUE == "events"

\* a message on a declared queue waits there for a consumer: the worker
\* consumes events_queue, no one consumes another queue
Queued(key) == IF key = EVENTS_QUEUE THEN "ready" ELSE "parked"

\* send_test_message: connect, queue_delete, declare_queue, declare_exchange,
\* then one persistent message through the default exchange with the name
\* of the queue as routing key.  Whether the hand-built body validates is
\* left open.
send_test_message ==
    /\ FreeMsgs # {}
    /\ Call
    /\ \E h \in Hashes, valid \in BOOLEAN :
        msgs' = [msgs EXCEPT ![NextMsg] =
                    [state |-> Queued(TEST_QUEUE), hash |-> h, valid |-> valid,
                     api |-> FALSE, mode |-> "PERSISTENT", key |-> TEST_QUEUE,
                     outcome |-> "none", persisted |-> FALSE,
                     settles |-> 0]]
    /\ UNCHANGED <<cache, ttl, rowCount, pc, hash, cur, err, acq, result, retRow,
                   insertedRow, retry, unique_counter, winners,
                   request, sync, apiProc, workerProc, pure>>

\* ------------------------------------------ worker: handle_event_message

\* where message.process() and nack(requeue=False) leave a rejected message
Rejected == IF REQUEUE THEN "ready" ELSE "dead"

\* message.ack(), message.nack(requeue=False) and the reject of
\* message.process(): the first of them on a delivered message settles it
\* at the broker; on a message that is processed already the call raises
\* MessageProcessError and sends nothing
settle_unguarded(msg, how) ==
    [msg |-> [msg EXCEPT !.state = how, !.settles = @ + 1], raised |-> FALSE]
settle(msg, how) ==
    IF msg.state # "unacked" THEN [msg |-> msg, raised |-> TRUE]
    ELSE [msg |-> [msg EXCEPT !.state = how, !.settles = @ + 1], raised |-> FALSE]

\* the body of the message.process() block ran to its end: await
\* message.ack(); leaving the block then acks once more, and the
\* MessageProcessError of that ack is caught by except Exception, whose
\* nack raises it again
settled_after_return(msg) ==
    LET explicit == settle(msg, "acked")
        on_exit == settle(explicit.msg, "acked")
        in_except == settle(on_exit.msg, Rejected)
    IN  IF on_exit.raised THEN in_except.msg ELSE on_exit.msg

\* the block was left by exception e: leaving it rejects the message, then
\* the except clause naming e acks (DuplicateEventError) or nacks
settled_after_raise(msg, e) ==
    LET on_exit == settle(msg, Rejected)
        in_except == settle(on_exit.msg,
                            IF e = "DuplicateEventError" THEN "acked" ELSE Rejected)
    IN  in_except.msg

\* the message of a handler that returned ("acked") or raised, with what
\* became of the event
Settle(m, how, res, row) ==
    msgs' = [msgs EXCEPT ![m] =
                [(IF how = "acked" THEN settled_after_return(@)
                                   ELSE settled_after_raise(@, "Exception"))
                    EXCEPT !.outcome = res, !.persisted = row]]

\* a delivery: orjson.loads(message.body), EventCreate(**raw_data).  A body
\* that fails validation leaves the message.process() block by the
\* exception, which rejects the message; the handler's own nack then finds
\* it settled.
handle_event_message(t, m) ==
    /\ Free(t)
    /\ msgs[m].state = "ready"
    /\ IF msgs[m].valid
       THEN /\ Begin(t, "ce_cache", preprocess_and_hash(msgs[m].hash), m,
                     FALSE, "none")
            /\ msgs' = [msgs EXCEPT ![m].state = "unacked"]
       ELSE /\ Begin(t, "done", NoHash, m, FALSE, "MessageProcessError")
            /\ msgs' = [msgs EXCEPT ![m] =
                        [settled_after_raise([@ EXCEPT !.state = "unacked"],
                                             "PydanticValidationError")
                            EXCEPT !.outcome = "invalid"]]
    /\ UNCHANGED <<cache, ttl, rowCount, unique_counter, winners, started,
                   sync, apiProc, workerProc, pure>>

\* repo.create_event(event.model_dump()): the composite duplicate check,
\* cache first
repo_create_event_cache(t, F) ==
    /\ pc[t] = "ce_cache"
    /\ \E ok \in F :
        IF ~ok THEN Raise(t, "CacheError", "w_reject")
        ELSE /\ pc' = [pc EXCEPT ![t] = IF redis_exists(cache, hash[t])
                                        THEN "w_ack" ELSE "ce_store"]
             /\ err' = err
    /\ UNCHANGED <<cache, ttl, rowCount, msgs, hash, cur, acq, result, retRow,
                   insertedRow, retry, unique_counter, winners, started,
                   request, sync, apiProc, workerProc, pure>>

\* the composite duplicate check, then the store
repo_create_event_store(t, F) ==
    /\ pc[t] = "ce_store"
    /\ \E ok \in F :
        IF ~ok THEN Raise(t, "DatabaseError", "w_reject")
        ELSE /\ pc' = [pc EXCEPT ![t] =
                        IF _check_postgres_duplicate(rowCount, hash[t])
                        THEN "w_ack" ELSE "ce_insert"]
             /\ err' = err
    /\ UNCHANGED <<cache, ttl, rowCount, msgs, hash, cur, acq, result, retRow,
                   insertedRow, retry, unique_counter, winners, started,
                   request, sync, apiProc, workerProc, pure>>

\* not a duplicate: the row is inserted in a transaction that is rolled back
\* on any failure, and the cache lock is registered with it
repo_create_event_insert(t, F) ==
    /\ pc[t] = "ce_insert"
    /\ \E ok \in F, ok2 \in F :
        LET r == insert_event(rowCount, hash[t]) IN
        IF ok /\ ok2 /\ r.ok
        THEN /\ rowCount' = r.rows
             /\ cache' = mark_processed(cache, hash[t])
             /\ ttl' = mark_processed_ex(ttl, hash[t])
             /\ insertedRow' = [insertedRow EXCEPT ![t] = TRUE]
             /\ pc' = [pc EXCEPT ![t] = "w_ack"]
             /\ err' = err
        ELSE /\ Raise(t, IF ok2 THEN "DatabaseError" ELSE "DeduplicationError",
                      "w_reject")
             /\ UNCHANGED <<cache, ttl, rowCount, insertedRow>>
    /\ UNCHANGED <<msgs, hash, cur, acq, result, retRow, retry, unique_counter,
                   winners, started,
                   request, sync, apiProc, workerProc, pure>>

\* create_event returned (saved, or a duplicate): await message.ack().
\* Leaving the message.process() block then acks again, which raises
\* MessageProcessError; so does the nack of the except clause.
handle_event_ack(t) ==
    /\ pc[t] = "w_ack"
    /\ Settle(cur[t], "acked", IF insertedRow[t] THEN "saved" ELSE "duplicate",
              insertedRow[t])
    /\ Finish(t, "MessageProcessError", FALSE)
    /\ UNCHANGED <<cache, ttl, rowCount, hash, cur, acq, insertedRow, retry,
                   unique_counter, winners, started,
                   request, sync, apiProc, workerProc, pure>>

\* create_event raised: the message.process() block is left by the
\* exception and rejects the message; the nack of the except clause raises
handle_event_reject(t) ==
    /\ pc[t] = "w_reject"
    /\ Settle(cur[t], Rejected, "failed", insertedRow[t])
    /\ Finish(t, "MessageProcessError", FALSE)
    /\ UNCHANGED <<cache, ttl, rowCount, hash, cur, acq, insertedRow, retry,
                   unique_counter, winners, started,
                   request, sync, apiProc, workerProc, pure>>

\* ------------------------------------------------ main.py: middlewares

Methods == {"GET", "POST", "PUT", "PATCH"}

\* A request body, by what makes it parse: empty; JSON as it stands; JSON
\* once fix_string has added a missing comma or key quote; JSON once the
\* commas before a closing bracket are stripped; text that no repair makes
\* parse; bytes that are no UTF-8 text.
Bodies == {"empty", "json", "missing_comma", "trailing_comma", "garbage",
           "not_utf8"}

\* body.decode() raises UnicodeDecodeError
decodes(b) == b # "not_utf8"

\* re.sub(r',\s*(?=\s*[}\]])', '', text)
strip_trailing_commas(b) == IF b = "trailing_comma" THEN "json" ELSE b

\* JSONRepairEngine.fix_string(text)
fix_string(b) == IF b = "missing_comma" THEN "json" ELSE b

\* json.loads(text) returns, or raises JSONDecodeError
json_loads(b) == b = "json"

\* What a middleware does with a request: it answers with a status, or it
\* calls call_next with the body it leaves in request._body.
Answer(st) == [status |-> st, body |-> "none"]
CallNext(b) == [status |-> "call_next", body |-> b]

\* json_validation_middleware, registered last and so the first to run:
\* JSONDecodeError and every other exception are both answered 422
json_validation_middleware(method, b) ==
    IF method \notin {"POST", "PUT", "PATCH"} \/ b = "empty" THEN CallNext(b)
    ELSE IF ~decodes(b) THEN Answer("422")
    ELSE IF ~json_loads(fix_string(b)) THEN Answer("422")
    ELSE CallNext(fix_string(b))

\* debug_middleware: print(body.decode()), inside add_process_time_header,
\* which answers 500 to any exception below it
debug_middleware(method, b) ==
    IF b # "empty" /\ ~decodes(b) THEN Answer("500") ELSE CallNext(b)

\* unified_json_middleware, registered first and so the last to run:
\* JSONDecodeError is answered 422, any other exception 400
unified_json_middleware(method, b) ==
    IF method \notin {"POST", "PUT", "PATCH"} \/ b = "empty" THEN CallNext(b)
    ELSE IF ~decodes(b) THEN Answer("400")
    ELSE IF ~json_loads(fix_string(strip_trailing_commas(b))) THEN Answer("422")
    ELSE CallNext("json")

\* the middlewares in the order a request passes them (json_fix_middleware
\* and add_process_time_header answer nothing themselves on this way)
middleware_stack(method, b) ==
    LET r1 == json_validation_middleware(method, b) IN
    IF r1.status # "call_next" THEN r1 ELSE
    LET r2 == debug_middleware(method, r1.body) IN
    IF r2.status # "call_next" THEN r2 ELSE
    unified_json_middleware(method, r2.body)

\* a task answers a request: its locals are those of the new request
Respond(t, res, rq) ==
    /\ pc' = [pc EXCEPT ![t] = "done"]
    /\ hash' = [hash EXCEPT ![t] = NoHash]
    /\ cur' = [cur EXCEPT ![t] = NoMsg]
    /\ err' = [err EXCEPT ![t] = "none"]
    /\ acq' = [acq EXCEPT ![t] = "none"]
    /\ result' = [result EXCEPT ![t] = res]
    /\ retRow' = [retRow EXCEPT ![t] = FALSE]
    /\ insertedRow' = [insertedRow EXCEPT ![t] = FALSE]
    /\ retry' = [retry EXCEPT ![t] = FALSE]
    /\ request' = [request EXCEPT ![t] = rq]

\* a request to a route of the application passes the middlewares; the
\* route handler is invoked when the last of them calls call_next
http_request(t, method, b) ==
    /\ Free(t)
    /\ Call
    /\ LET r == middleware_stack(method, b) IN
       Respond(t, r.status,
               [NoRequest EXCEPT !.path = "/", !.method = method, !.body = b,
                                 !.handled = (r.status = "call_next")])
    /\ UNCHANGED <<cache, ttl, rowCount, msgs, unique_counter, winners, sync,
                   apiProc, workerProc, pure>>

\* ------------------------------------------------------ GET /events/sort

\* page: int = Query(1, ge=1); per_page: int = Query(100, ge=1, le=1000)
PAGE_DEFAULT == 1
PER_PAGE_DEFAULT == 100
PER_PAGE_MAX == 1000

\* the values a client sends for page and for per_page; a parameter is the
\* empty set when the request leaves it out
PageInputs == {{}, {0}, {1}, {2}}
PerPageInputs == {{}, {0}, {1}, {PER_PAGE_MAX}, {PER_PAGE_MAX + 1}}

\* the value of a query parameter: what was sent, or the default
Param(sent, default) == IF sent = {} THEN default ELSE CHOOSE v \in sent : TRUE

\* the constraints of the two Query declarations
query_valid(page, per_page) ==
    page >= 1 /\ per_page >= 1 /\ per_page <= PER_PAGE_MAX

\* offset = (page - 1) * per_page
page_offset_from_page(page, per_page) == page * per_page
page_offset(page, per_page) == (page - 1) * per_page

\* the rows of table events
TotalRows == rowCount["h1"] + rowCount["h2"]

\* query.offset(offset).limit(limit): the number of rows the store returns
rows_returned(total, offset, limit) ==
    LET left == IF total > offset THEN total - offset ELSE 0
    IN IF left > limit THEN limit ELSE left

\* get_events: the query parameters are validated before the handler runs
\* (422); the handler computes the offset and calls repo.get_events, whose
\* DatabaseError it answers with 400
get_events(t, F) ==
    /\ Free(t)
    /\ Call
    /\ \E sp \in PageInputs, spp \in PerPageInputs, ok \in F :
        LET page == Param(sp, PAGE_DEFAULT)
            per_page == Param(spp, PER_PAGE_DEFAULT)
            rq == [NoRequest EXCEPT !.path = "/events/sort", !.method = "GET",
                                    !.body = "empty", !.page = sp,
                                    !.per_page = spp]
        IN
        IF ~query_valid(page, per_page)
        THEN Respond(t, "422", rq)
        ELSE LET offset == page_offset(page, per_page) IN
             Respond(t, IF ok THEN "200" ELSE "400",
                     [rq EXCEPT !.handled = TRUE, !.queried = TRUE,
                                !.offset = offset, !.limit = per_page,
                                !.count = IF ok THEN rows_returned(TotalRows,
                                                        offset, per_page)
                                          ELSE 0])
    /\ UNCHANGED <<cache, ttl, rowCount, msgs, unique_counter, winners, sync,
                   apiProc, workerProc, pure>>

\* ---------------------------------------------------- GET /events/health

Deps == {"store", "cache", "broker"}

\* health_check: the dependency get_rabbitmq connects before the handler
\* body runs, and its MessageQueueError is answered 500 by
\* add_process_time_header; get_db and get_redis connect to nothing.  The
\* body asks the store, the cache and the broker in this order and answers
\* 503 with the text of the first exception.
health_check_response(down) ==
    IF "broker" \in down THEN [status |-> "500", detail |-> "none", handled |-> FALSE]
    ELSE IF "store" \in down THEN [status |-> "503", detail |-> "store", handled |-> TRUE]
    ELSE IF "cache" \in down THEN [status |-> "503", detail |-> "cache", handled |-> TRUE]
    ELSE [status |-> "200", detail |-> "OK", handled |-> TRUE]

health_check(t, D) ==
    /\ Free(t)
    /\ Call
    /\ \E down \in SUBSET D :
        LET r == health_check_response(down) IN
        Respond(t, r.status,
                [NoRequest EXCEPT !.path = "/events/health", !.method = "GET",
                                  !.body = "empty", !.down = down,
                                  !.detail = r.detail, !.handled = r.handled])
    /\ UNCHANGED <<cache, ttl, rowCount, msgs, unique_counter, winners, sync,
                   apiProc, workerProc, pure>>

\* ------------------------------------------------------ main.py: lifespan

\* a release call on a handle: it closes an open handle, or it fails and
\* leaves it; a handle that was never opened or is closed stays as it is
Release(hd, ok) == IF hd # "open" THEN hd ELSE IF ok THEN "closed" ELSE "failed"

\* async with engine.begin() as conn: await conn.run_sync(create_all).  The
\* statements before the try of lifespan are not covered by its finally: an
\* exception here ends the lifespan at once.  The pool may hold a connection
\* by then.
lifespan_create_tables(F) ==
    /\ apiProc.pc = "off"
    /\ \E ok \in F, pool \in BOOLEAN :
        apiProc' = IF ok THEN [apiProc EXCEPT !.pc = "redis", !.engine = "open"]
                   ELSE [apiProc EXCEPT !.pc = "ended", !.raised = "startup",
                            !.engine = IF pool THEN "open" ELSE "none"]
    /\ UNCHANGED <<cache, ttl, rowCount, msgs, pc, hash, cur, err, acq, result,
                   retRow, insertedRow, retry, unique_counter, started,
                   winners, request, sync, workerProc, pure>>

\* redis = Redis.from_url(...)
lifespan_redis(F) ==
    /\ apiProc.pc = "redis"
    /\ \E ok \in F :
        apiProc' = IF ok THEN [apiProc EXCEPT !.pc = "rabbit", !.redis = "open"]
                   ELSE [apiProc EXCEPT !.pc = "ended", !.raised = "startup"]
    /\ UNCHANGED <<cache, ttl, rowCount, msgs, pc, hash, cur, err, acq, result,
                   retRow, insertedRow, retry, unique_counter, started,
                   winners, request, sync, workerProc, pure>>

\* rabbit_connection = await aio_pika.connect(settings.RABBITMQ_URL); then
\* the try is entered and the state is yielded
lifespan_rabbit(F) ==
    /\ apiProc.pc = "rabbit"
    /\ \E ok \in F :
        apiProc' = IF ok THEN [apiProc EXCEPT !.pc = "yield", !.rabbit = "open"]
                   ELSE [apiProc EXCEPT !.pc = "ended", !.raised = "startup"]
    /\ UNCHANGED <<cache, ttl, rowCount, msgs, pc, hash, cur, err, acq, result,
                   retRow, insertedRow, retry, unique_counter, started,
                   winners, request, sync, workerProc, pure>>

\* the application shuts down: the finally clause begins
lifespan_shutdown ==
    /\ apiProc.pc = "yield"
    /\ apiProc' = [apiProc EXCEPT !.pc = "close_redis"]
    /\ UNCHANGED <<cache, ttl, rowCount, msgs, pc, hash, cur, err, acq, result,
                   retRow, insertedRow, retry, unique_counter, started,
                   winners, request, sync, workerProc, pure>>

\* finally: await redis.close(); await rabbit_connection.close(); await
\* engine.dispose(), one after the other: an exception of one of them leaves
\* the finally clause before the next is called
lifespan_close_redis(F) ==
    /\ apiProc.pc = "close_redis"
    /\ \E ok \in F :
        apiProc' = [apiProc EXCEPT !.redis = Release(@, ok),
                        !.pc = IF ok THEN "close_rabbit" ELSE "ended",
                        !.raised = IF ok THEN @ ELSE "release"]
    /\ UNCHANGED <<cache, ttl, rowCount, msgs, pc, hash, cur, err, acq, result,
                   retRow, insertedRow, retry, unique_counter, started,
                   winners, request, sync, workerProc, pure>>

lifespan_close_rabbit(F) ==
    /\ apiProc.pc = "close_rabbit"
    /\ \E ok \in F :
        apiProc' = [apiProc EXCEPT !.rabbit = Release(@, ok),
                        !.pc = IF ok THEN "dispose" ELSE "ended",
                        !.raised = IF ok THEN @ ELSE "release"]
    /\ UNCHANGED <<cache, ttl, rowCount, msgs, pc, hash, cur, err, acq, result,
                   retRow, insertedRow, retry, unique_counter, started,
                   winners, request, sync, workerProc, pure>>

lifespan_dispose(F) ==
    /\ apiProc.pc = "dispose"
    /\ \E ok \in F :
        apiProc' = [apiProc EXCEPT !.engine = Release(@, ok),
                        !.pc = "ended",
                        !.raised = IF ok THEN @ ELSE "release"]
    /\ UNCHANGED <<cache, ttl, rowCount, msgs, pc, hash, cur, err, acq, result,
                   retRow, insertedRow, retry, unique_counter, started,
                   winners, request, sync, workerProc, pure>>

\* ------------------------------------------------------- worker.py: main

\* redis = await get_redis()
main_get_redis ==
    /\ workerProc.pc = "off"
    /\ workerProc' = [workerProc EXCEPT !.pc = "connect", !.redis = "open"]
    /\ UNCHANGED <<cache, ttl, rowCount, msgs, pc, hash, cur, err, acq, result,
                   retRow, insertedRow, retry, unique_counter, started,
                   winners, request, sync, apiProc, pure>>

\* connection = await connect_robust(...); a failure is logged by except
\* Exception and the finally clause runs
main_connect(F) ==
    /\ workerProc.pc = "connect"
    /\ \E ok \in F :
        workerProc' = IF ok THEN [workerProc EXCEPT !.pc = "setup", !.rabbit = "open"]
                      ELSE [workerProc EXCEPT !.pc = "finally"]
    /\ UNCHANGED <<cache, ttl, rowCount, msgs, pc, hash, cur, err, acq, result,
                   retRow, insertedRow, retry, unique_counter, started,
                   winners, request, sync, apiProc, pure>>

\* channel, set_qos, declare_queue twice, consume twice; then main waits on
\* asyncio.Future()
main_consume(F) ==
    /\ workerProc.pc = "setup"
    /\ \E ok \in F :
        workerProc' = [workerProc EXCEPT !.pc = IF ok THEN "waiting" ELSE "finally"]
    /\ UNCHANGED <<cache, ttl, rowCount, msgs, pc, hash, cur, err, acq, result,
                   retRow, insertedRow, retry, unique_counter, started,
                   winners, request, sync, apiProc, pure>>

\* a handler opens a session (AsyncSessionLocal, bound to the engine of
\* database.py): the engine's pool connects to the store
main_session ==
    /\ workerProc.pc = "waiting"
    /\ workerProc.engine = "none"
    /\ workerProc' = [workerProc EXCEPT !.engine = "open"]
    /\ UNCHANGED <<cache, ttl, rowCount, msgs, pc, hash, cur, err, acq, result,
                   retRow, insertedRow, retry, unique_counter, started,
                   winners, request, sync, apiProc, pure>>

\* the main task is cancelled at one of its awaits: except
\* asyncio.CancelledError logs, and the finally clause runs
main_cancel ==
    /\ workerProc.pc \in {"connect", "setup", "waiting"}
    /\ workerProc' = [workerProc EXCEPT !.pc = "finally"]
    /\ UNCHANGED <<cache, ttl, rowCount, msgs, pc, hash, cur, err, acq, result,
                   retRow, insertedRow, retry, unique_counter, started,
                   winners, request, sync, apiProc, pure>>

\* finally: if connection: await connection.close(); if redis: await
\* redis.close().  An exception of the first leaves main before the second.
\* No statement of worker.py disposes the engine.
main_finally(F) ==
    /\ workerProc.pc = "finally"
    /\ \E ok \in F, ok2 \in F :
        workerProc' = [workerProc EXCEPT
                        !.rabbit = Release(@, ok),
                        !.redis = IF ok \/ workerProc.rabbit # "open"
                                  THEN Release(@, ok2) ELSE @,
                        !.raised = IF (~ok /\ workerProc.rabbit = "open") \/ ~ok2
                                   THEN "release" ELSE @,
                        !.pc = "ended"]
    /\ UNCHANGED <<cache, ttl, rowCount, msgs, pc, hash, cur, err, acq, result,
                   retRow, insertedRow, retry, unique_counter, started,
                   winners, request, sync, apiProc, pure>>

\* ------------------------------------------- worker: handle_sync_message

\* The body of the external source's answer is iterated item by item.  An
\* item is a JSON object that validates (it then has its fingerprint), a
\* JSON object that fails validation, or a JSON value that is no object.
Items == Hashes \cup {"invalid", "no_object"}
Pages == UNION {[1..n -> Items] : n \in 0..MaxPage}

\* what client.get and raise_for_status end with: the page, a non-success
\* status, or no answer at all (no connection, timeout, no URL configured)
Fetches == {"ok", "status", "unreachable"}

\* what _fetch_external_events raises to handle_sync_message after the
\* external source answered with a non-success status: both except clauses
\* only log
fetch_raises(r) == "none"

\* the except clause around one item: (PydanticValidationError,
\* DuplicateEventError).  EventCreate(**event_data) on a value that is no
\* mapping raises TypeError.
item_skipped(e) == e \in {"PydanticValidationError", "DuplicateEventError"}

\* the loop goes on to the next item, and past the last one the fetch returns
NextItem(s) ==
    LET n == [s EXCEPT !.pos = @ + 1] IN
    IF n.pos = Len(n.page) THEN [n EXCEPT !.pc = "ack"] ELSE n

\* a trigger message arrives on external_sync_queue
publish_sync ==
    /\ sync.msg \in {"none", "acked", "dead"}
    /\ Call
    /\ sync' = [NoSync EXCEPT !.msg = "ready"]
    /\ UNCHANGED <<cache, ttl, rowCount, msgs, pc, hash, cur, err, acq, result,
                   retRow, insertedRow, retry, unique_counter, winners,
                   request, apiProc, workerProc, pure>>

\* handle_sync_message: async with message.process(), async with
\* AsyncSessionLocal(), Deduplicator(redis), PostgresEventRepository(...).
\* An exception here leaves the message.process() block, which rejects the
\* message.
handle_sync_message(F) ==
    /\ sync.msg = "ready"
    /\ \E ok \in F :
        sync' = IF ok THEN [sync EXCEPT !.msg = "unacked", !.pc = "get"]
                ELSE LET r == settled_after_raise(
                                  [state |-> "unacked", settles |-> sync.settles],
                                  "Exception")
                     IN  [sync EXCEPT !.msg = r.state, !.settles = r.settles,
                                      !.pc = "done", !.raised = "Exception"]
    /\ UNCHANGED <<cache, ttl, rowCount, msgs, pc, hash, cur, err, acq, result,
                   retRow, insertedRow, retry, unique_counter, started,
                   winners, request, apiProc, workerProc, pure>>

\* _fetch_external_events: await client.get(...), response.raise_for_status(),
\* response.json().  httpx.HTTPError and every other exception are logged by
\* the two except clauses of the function, which then returns.
_fetch_external_events(R) ==
    /\ sync.pc = "get"
    /\ \E r \in R, p \in Pages :
        sync' = IF r = "ok" /\ Len(p) > 0
                THEN [sync EXCEPT !.fetch = r, !.page = p, !.pc = "items"]
                ELSE [sync EXCEPT !.fetch = r, !.pc = "ack",
                                  !.raised = fetch_raises(r)]
    /\ UNCHANGED <<cache, ttl, rowCount, msgs, pc, hash, cur, err, acq, result,
                   retRow, insertedRow, retry, unique_counter, started,
                   winners, request, apiProc, workerProc, pure>>

\* one turn of the loop: event = EventCreate(**event_data), await
\* repo.create_event(event.model_dump()).  An exception the clause around the
\* item does not name reaches the except clauses of the function: the loop
\* ends there and the function returns.
_fetch_external_events_item(F) ==
    /\ sync.pc = "items"
    /\ LET item == sync.page[sync.pos + 1]
           Skip(e) == IF item_skipped(e) THEN NextItem(sync)
                      ELSE [sync EXCEPT !.pc = "ack"]
       IN
       \E ok \in F :
        IF item \notin Hashes
        THEN /\ sync' = Skip(IF item = "invalid" THEN "PydanticValidationError"
                                                 ELSE "TypeError")
             /\ UNCHANGED <<cache, ttl, rowCount>>
        ELSE IF ~ok
        THEN /\ sync' = Skip("DatabaseError")
             /\ UNCHANGED <<cache, ttl, rowCount>>
        ELSE IF redis_exists(cache, item) \/ _check_postgres_duplicate(rowCount, item)
        THEN /\ sync' = Skip("DuplicateEventError")
             /\ UNCHANGED <<cache, ttl, rowCount>>
        ELSE LET r == insert_event(rowCount, item) IN
             /\ rowCount' = r.rows
             /\ cache' = mark_processed(cache, item)
             /\ ttl' = mark_processed_ex(ttl, item)
             /\ sync' = NextItem([sync EXCEPT !.rows = @ \cup {item}])
    /\ UNCHANGED <<msgs, pc, hash, cur, err, acq, result, retRow, insertedRow,
                   retry, unique_counter, started, winners, request, apiProc,
                   workerProc, pure>>

\* _fetch_external_events returned: await message.ack()
handle_sync_ack ==
    /\ sync.pc = "ack"
    /\ LET r == settled_after_return([state |-> sync.msg,
                                      settles |-> sync.settles])
       IN  sync' = [sync EXCEPT !.msg = r.state, !.settles = r.settles,
                                !.pc = "done"]
    /\ UNCHANGED <<cache, ttl, rowCount, msgs, pc, hash, cur, err, acq, result,
                   retRow, insertedRow, retry, unique_counter, started,
                   winners, request, apiProc, workerProc, pure>>

\* ------------------------------------- utils/data_cleaners.py: dates

\* the texts the payloads are made of
ISO_TEXT == "2024-01-01T00:00:00"
Texts == {"", "  ", "ok", " ok ", ISO_TEXT, " 2024-01-01T00:00:00 ",
          "01.01.2024 00:00:00", "01/01/2024 12:00 AM",
          "x 2024-01-01 00:00 y", "2024-01-01 00:00",
          "x 2024-13-45T99:99 y", "2024-13-45T99:99", "[]", "None", "[...]"}

\* str.strip()
strip(s) ==
    CASE s = "  " -> ""
      [] s = " ok " -> "ok"
      [] s = " 2024-01-01T00:00:00 " -> ISO_TEXT
      [] OTHER -> s

\* str(value)
str(v) ==
    CASE v.t \in {"str", "int", "datetime"} -> v.s
      [] v.t = "NoneType" -> "None"
      [] OTHER -> "[...]"

\* no date: the parser raised ValueError
NoDate == "ValueError"

\* datetime.fromisoformat(value), the date as its isoformat() text
fromisoformat(s) ==
    IF s \in {ISO_TEXT, "2024-01-01 00:00"} THEN ISO_TEXT ELSE NoDate

DATE_FORMATS == <<"%Y-%m-%dT%H:%M:%S.%f%z", "%Y-%m-%dT%H:%M:%S%z",
                  "%Y-%m-%d %H:%M:%S.%f", "%Y-%m-%d %H:%M:%S",
                  "%Y%m%dT%H%M%S", "%d.%m.%Y %H:%M:%S", "%m/%d/%Y %I:%M %p">>

\* datetime.strptime(value, fmt)
strptime(s, fmt) ==
    IF \/ s = "01.01.2024 00:00:00" /\ fmt = "%d.%m.%Y %H:%M:%S"
       \/ s = "01/01/2024 12:00 AM" /\ fmt = "%m/%d/%Y %I:%M %p"
    THEN ISO_TEXT ELSE NoDate

\* for fmt in DATE_FORMATS: the first format that parses the text, 0 if none
first_format(s) ==
    LET fit == {i \in 1..Len(DATE_FORMATS) : strptime(s, DATE_FORMATS[i]) # NoDate}
    IN  IF fit = {} THEN 0 ELSE CHOOSE i \in fit : \A j \in fit : i <= j

\* re.search(r'\d{4}-\d{2}-\d{2}[T ]\d{2}:\d{2}', value): match.group(), or
\* "" when nothing matches.  The pattern asks for digits only, so a match
\* need not be a date, and a text that is a match matches itself.
re_search(s) ==
    CASE s \in {"x 2024-01-01 00:00 y", "2024-01-01 00:00"} -> "2024-01-01 00:00"
      [] s \in {"x 2024-13-45T99:99 y", "2024-13-45T99:99"} -> "2024-13-45T99:99"
      [] s \in {ISO_TEXT, " 2024-01-01T00:00:00 "} -> "2024-01-01T00:00"
      [] OTHER -> ""

\* datetime.fromtimestamp(value)
fromtimestamp(n) == IF n = "0" THEN "1970-01-01T00:00:00" ELSE "1970-01-01T00:00:05"

\* the frames parse_datetime may stack before the interpreter raises
\* RecursionError
RecursionLimit == 3

\* parse_datetime(value), called with depth frames of itself on the stack
RECURSIVE parse_datetime_frame(_, _)
parse_datetime_frame(value, depth) ==
    IF value.t = "datetime" THEN value
    ELSE IF value.t = "int" THEN PyDatetime(fromtimestamp(value.s))
    ELSE LET s == strip(str(value)) IN
         IF fromisoformat(s) # NoDate THEN PyDatetime(fromisoformat(s))
         ELSE IF first_format(s) # 0
              THEN PyDatetime(strptime(s, DATE_FORMATS[first_format(s)]))
         ELSE IF re_search(s) # ""
              THEN IF depth >= RecursionLimit
                   THEN Raised("RecursionError")
                   ELSE parse_datetime_frame(PyStr(re_search(s)), depth + 1)
         ELSE Raised("ValueError")

parse_datetime(value) == parse_datetime_frame(value, 1)

\* utils/serializer.py: DateTimeParser.parse(value)
DateTimeParser_parse(value) ==
    IF value.t = "datetime" THEN value
    ELSE IF value.t = "int" THEN PyDatetime(fromtimestamp(value.s))
    ELSE LET s == strip(str(value)) IN
         IF fromisoformat(s) # NoDate THEN PyDatetime(fromisoformat(s))
         ELSE IF first_format(s) # 0
              THEN PyDatetime(strptime(s, DATE_FORMATS[first_format(s)]))
         ELSE Raised("ValueError")

\* -------------------------------- utils/data_cleaners.py: deep_clean

\* the keys of the payloads
Keys == {"a", "b", "c", "d", "__meta", "javascript_x", "xml_x", "internal_id"}

\* str.startswith(prefixes)
key_prefixes(k) ==
    CASE k = "__meta" -> {"__"}
      [] k = "javascript_x" -> {"javascript"}
      [] k = "xml_x" -> {"xml"}
      [] k = "internal_id" -> {"internal_"}
      [] OTHER -> {}

startswith(k, prefixes) == key_prefixes(k) \cap prefixes # {}

\* the keys deep_clean leaves out: k.startswith(('__', 'javascript', 'xml'))
SKIPPED_PREFIXES == {"__", "javascript", "xml"}

\* _is_meaningful(value): a text that is not blank, or anything but None
_is_meaningful(value) ==
    IF value.t = "str" THEN strip(value.s) # "" ELSE value.t # "NoneType"

\* value[0] in ('{', '[') and value[-1] in ('}', ']')
looks_like_json(s) == s \in {"[]", "[...]"}

\* json.loads(value) of such a text, a JSONDecodeError as a raise
json_loads_text(s) == IF s = "[]" THEN PyList(<<>>) ELSE Raised("JSONDecodeError")

\* _process_value(value): numbers become datetimes, dicts and lists are
\* rebuilt from their meaningful members, datetimes become their isoformat
\* text, texts are stripped and, when they parse, replaced by the parsed
\* JSON or by the date's isoformat text.  except ValueError passes the
\* text on; the except Exception around it all returns None.
RECURSIVE _process_value(_)
_process_value(value) ==
    CASE value.t = "int" -> PyDatetime(fromtimestamp(value.s))
      [] value.t = "dict" ->
            LET kept == SelectSeq(value.kids,
                            LAMBDA it : /\ ~startswith(it.k, SKIPPED_PREFIXES)
                                        /\ _is_meaningful(it.v))
            IN  PyDict([i \in 1..Len(kept) |->
                            Item(kept[i].k, _process_value(kept[i].v))])
      [] value.t = "list" ->
            LET kept == SelectSeq(value.kids, _is_meaningful)
            IN  PyList([i \in 1..Len(kept) |-> _process_value(kept[i])])
      [] value.t = "datetime" -> PyStr(value.s)
      [] value.t = "str" ->
            LET s == strip(value.s) IN
            IF looks_like_json(s) /\ json_loads_text(s).t # "raise"
            THEN json_loads_text(s)
            ELSE LET d == parse_datetime(PyStr(s)) IN
                 CASE d.t = "datetime" -> PyStr(d.s)
                   [] d = Raised("ValueError") -> PyStr(s)
                   [] OTHER -> PyNone
      [] OTHER -> value

\* deep_clean(data): the values of the payloads all pass the final
\* json.dumps, so the cleaned value is returned
deep_clean(data) == _process_value(data)

\* utils/serializer.py, DataNormalizer.deep_clean: _is_meaningful there is
\* `value is not None or ...`, true of everything but None
DataNormalizer_is_meaningful(value) == value.t # "NoneType"

RECURSIVE DataNormalizer_deep_clean(_)
DataNormalizer_deep_clean(value) ==
    CASE value.t = "dict" ->
            LET kept == SelectSeq(value.kids,
                            LAMBDA it : DataNormalizer_is_meaningful(it.v))
            IN  PyDict([i \in 1..Len(kept) |->
                            Item(kept[i].k, DataNormalizer_deep_clean(kept[i].v))])
      [] value.t = "list" ->
            LET kept == SelectSeq(value.kids, DataNormalizer_is_meaningful)
            IN  PyList([i \in 1..Len(kept) |-> DataNormalizer_deep_clean(kept[i])])
      [] value.t = "str" ->
            LET cleaned == strip(value.s) IN
            IF cleaned = "[]" THEN json_loads_text(cleaned)
            ELSE IF cleaned = "[...]" THEN PyStr(cleaned)
            ELSE IF cleaned = "None" THEN PyNone
            ELSE LET d == DateTimeParser_parse(PyStr(cleaned)) IN
                 IF d.t = "datetime" THEN PyStr(d.s) ELSE value
      [] OTHER -> value

\* the values of the payloads' fields
FieldValues ==
    {PyNone, PyStr(""), PyStr("  "), PyStr("ok"), PyStr(" ok "), PyStr("[]"),
     PyStr(ISO_TEXT), PyStr("x 2024-13-45T99:99 y"), PyInt("5"),
     PyList(<<>>), PyDict(<<>>),
     PyList(<<PyNone, PyStr(""), PyList(<<>>), PyStr("ok")>>),
     PyDict(<<Item("__meta", PyStr("ok")), Item("d", PyNone)>>)}

\* the payloads: dicts of up to two fields, and the dict with an empty
\* text, an empty list, a None and the text 'ok'
ExamplePayload ==
    PyDict(<<Item("a", PyStr("")), Item("b", PyList(<<>>)),
             Item("c", PyNone), Item("d", PyStr("ok"))>>)

PayloadKeys == Keys \ {"b", "c"}

Payloads ==
    {PyDict(<<>>), ExamplePayload}
        \cup {PyDict(<<Item(k, v)>>) : k \in PayloadKeys, v \in FieldValues}
        \cup {PyDict(<<Item(k[1], v[1]), Item(k[2], v[2])>>) :
                k \in {q \in PayloadKeys \X PayloadKeys : q[1] # q[2]},
                v \in FieldValues \X FieldValues}

\* ------------------- models/pydentic_models.py: _pre_extract_timestamps

timestamp_fields == <<"ts", "dt_add", "event_receive_dt_str", "timestamp",
                      "event_time", "created_at", "event_receive_timestamp",
                      "time">>

\* data.get(field): None when the dict has no such key
dict_get(data, field) ==
    LET at == {i \in 1..Len(data.kids) : data.kids[i].k = field}
    IN  IF at = {} THEN PyNone ELSE data.kids[CHOOSE i \in at : TRUE].v

\* the truth value of a Python value: None, "", 0 and empty collections
\* are false
truthy(value) ==
    CASE value.t = "NoneType" -> FALSE
      [] value.t = "str" -> value.s # ""
      [] value.t = "int" -> value.s # "0"
      [] value.t \in {"list", "dict"} -> value.kids # <<>>
      [] OTHER -> TRUE

\* the loop over timestamp_fields from the i-th field on: if value :=
\* data.get(field), parse_datetime(value) is stored under the field.
\* except ValueError logs and goes on; another exception leaves the
\* function.
RECURSIVE _pre_extract_timestamps_from(_, _, _)
_pre_extract_timestamps_from(data, i, timestamps) ==
    IF i > Len(timestamp_fields) THEN PyDict(timestamps)
    ELSE LET field == timestamp_fields[i]
             value == dict_get(data, field)
             d == parse_datetime(value)
         IN  IF ~truthy(value)
             THEN _pre_extract_timestamps_from(data, i + 1, timestamps)
             ELSE CASE d.t = "datetime" ->
                         _pre_extract_timestamps_from(data, i + 1,
                             Append(timestamps, Item(field, d)))
                    [] d = Raised("ValueError") ->
                         _pre_extract_timestamps_from(data, i + 1, timestamps)
                    [] OTHER -> d

_pre_extract_timestamps(data) == _pre_extract_timestamps_from(data, 1, <<>>)

\* the maps handed to the extraction: up to two fields, candidate keys and
\* another key, their values dates, texts, numbers and None
StampValues ==
    {PyStr(ISO_TEXT), PyStr("01.01.2024 00:00:00"), PyStr("x 2024-01-01 00:00 y"),
     PyStr("ok"), PyStr(""), PyStr("x 2024-13-45T99:99 y"),
     PyInt("0"), PyInt("5"), PyDatetime(ISO_TEXT), PyNone}

StampKeys == {timestamp_fields[i] : i \in 1..Len(timestamp_fields)} \cup {"d"}

StampMaps ==
    {PyDict(<<>>)}
        \cup {PyDict(<<Item(k, v)>>) : k \in StampKeys, v \in StampValues}
        \cup {PyDict(<<Item(k[1], v[1]), Item(k[2], v[2])>>) :
                k \in {q \in StampKeys \X StampKeys : q[1] # q[2]},
                v \in StampValues \X StampValues}

\* ------------------------------ services/normalize.py, event_hashing.py

\* the keys in the order of their code points
SortedKeys == <<"__meta", "a", "b", "c", "d", "data", "event", "event_hash",
                "internal_id", "javascript_x", "raw_data", "timestamps",
                "xml_x">>

key_rank(k) == CHOOSE i \in 1..Len(SortedKeys) : SortedKeys[i] = k

\* the items of a dict in the order of their keys
sorted_items(items) ==
    LET n == Len(items)
        order == CHOOSE f \in [1..n -> 1..n] :
                    /\ \A i, j \in 1..n : i # j => f[i] # f[j]
                    /\ \A i, j \in 1..n :
                          i < j => key_rank(items[f[i]].k) < key_rank(items[f[j]].k)
    IN  [i \in 1..n |-> items[order[i]]]

\* sort_keys=True, OPT_SORT_KEYS: the value with the items of every dict
\* in it in the order of their keys
RECURSIVE sort_keys(_)
sort_keys(v) ==
    CASE v.t = "dict" ->
            LET q == sorted_items(v.kids)
            IN  PyDict([i \in 1..Len(q) |-> Item(q[i].k, sort_keys(q[i].v))])
      [] v.t = "list" -> PyList([i \in 1..Len(v.kids) |-> sort_keys(v.kids[i])])
      [] OTHER -> v

\* json.dumps(value, sort_keys=True, separators=(',', ':')) and
\* orjson.dumps(value, option=OPT_SORT_KEYS): the text, which is the same
\* for two values exactly when they are equal up to the order of the keys
json_dumps(v) == Val("json", "", <<sort_keys(v)>>)

\* _convert_value(value): the value is cleaned once more; a datetime or a
\* text goes through parse_datetime(...).isoformat(), a dict or a list is
\* dumped, anything else is str(); the except Exception returns ""
_convert_value(value) ==
    LET cleaned_value == deep_clean(value) IN
    CASE cleaned_value.t \in {"datetime", "str"} ->
            LET d == parse_datetime(cleaned_value)
            IN  IF d.t = "datetime" THEN PyStr(d.s) ELSE PyStr("")
      [] cleaned_value.t \in {"dict", "list"} -> json_dumps(cleaned_value)
      [] OTHER -> PyStr(str(cleaned_value))

\* normalize_for_hashing(raw_data, field_name)
normalize_for_hashing(raw_data, field_name) ==
    LET cleaned_data == deep_clean(raw_data) IN
    IF cleaned_data.t = "dict"
    THEN LET kept == SelectSeq(cleaned_data.kids, LAMBDA it : it.v.t # "NoneType")
         IN  PyDict([i \in 1..Len(kept) |->
                        Item(kept[i].k, _convert_value(kept[i].v))])
    ELSE PyDict(<<Item(field_name, _convert_value(cleaned_data))>>)

\* hashlib.sha3_256(serialized).hexdigest(): distinct texts are taken to
\* have distinct digests
sha3_256(serialized) == Val("sha3_256", "", <<serialized>>)

\* EventHashService.generate(raw_data, event_name), salt=None and
\* use_timestamp=False as generate_event_hash calls it
generate(raw_data, event_name) ==
    LET normalized_data == normalize_for_hashing(raw_data, event_name)
        hash_payload == PyDict(<<Item("event", PyStr(event_name)),
                                 Item("data", normalized_data)>>)
    IN  sha3_256(json_dumps(hash_payload))

\* the event name the payloads are hashed under
EVENT_NAME == "ok"

\* the fields that are blank, empty or None
EmptyFields == {PyNone, PyStr(""), PyStr("  "), PyList(<<>>), PyDict(<<>>)}

\* the payloads that are hashed: up to two fields
HashKeys == {"a", "d"}

HashPayloads ==
    {PyDict(<<Item(k, v)>>) : k \in HashKeys, v \in FieldValues}
        \cup {PyDict(<<Item(k[1], v[1]), Item(k[2], v[2])>>) :
                k \in {q \in HashKeys \X HashKeys : q[1] # q[2]},
                v \in FieldValues \X FieldValues}

\* a payload's fields in the opposite order
reversed(items) == [i \in 1..Len(items) |-> items[Len(items) + 1 - i]]

\* the payloads that differ from a payload in the order of the keys only,
\* or in a field c that is blank, empty or None
Variants(p) ==
    {p, PyDict(reversed(p.kids))}
        \cup {PyDict(Append(p.kids, Item("c", e))) : e \in EmptyFields}

HashCalls ==
    UNION {{[fn |-> "generate", arg |-> p, alt |-> q, out |-> PyNone,
             done |-> FALSE] : q \in Variants(p)} : p \in HashPayloads}

\* --------------------------- services/normalize.py: remove_empty_values

\* _is_empty(val): None, or a text or a collection of length 0
_is_empty(val) ==
    \/ val.t = "NoneType"
    \/ val.t = "str" /\ val.s = ""
    \/ val.t \in {"list", "dict"} /\ val.kids = <<>>

\* _process(value): a dict and a list are rebuilt from the members that
\* are not empty as they stand, each of them processed in its turn
RECURSIVE remove_empty_values(_)
remove_empty_values(value) ==
    CASE value.t = "dict" ->
            LET kept == SelectSeq(value.kids, LAMBDA it : ~_is_empty(it.v))
            IN  PyDict([i \in 1..Len(kept) |->
                            Item(kept[i].k, remove_empty_values(kept[i].v))])
      [] value.t = "list" ->
            LET kept == SelectSeq(value.kids, LAMBDA it : ~_is_empty(it))
            IN  PyList([i \in 1..Len(kept) |-> remove_empty_values(kept[i])])
      [] OTHER -> value

\* the maps handed to remove_empty_values: up to two fields, among their
\* values collections whose members are all empty
NestedValues ==
    FieldValues \cup {PyDict(<<Item("d", PyStr(""))>>), PyList(<<PyNone>>)}

NestedPayloads ==
    {PyDict(<<Item(k, v)>>) : k \in HashKeys, v \in NestedValues}
        \cup {PyDict(<<Item("a", v[1]), Item("d", v[2])>>) :
                v \in NestedValues \X NestedValues}

\* ------------------------------- services/normalize.py: fix_invalid_json

\* the trailing commas a text may carry before its closing brace
MaxCommas == 4

\* the texts handed to fix_invalid_json: the object {"a":1} written with
\* double or single quotes around its key, with some commas after its value,
\* with or without its closing brace, its value quoted or not; or brackets
\* nested deeper than the parser can follow
JsonTexts == [quotes : {"double", "single"}, commas : 0..MaxCommas,
              closed : BOOLEAN, quoted_value : {FALSE},
              nesting : {"flat", "deep"}]

\* json.loads(data): the outcome
json_loads_outcome(x) ==
    IF x.nesting = "deep" THEN "RecursionError"
    ELSE IF x.quotes = "double" /\ x.commas = 0 /\ x.closed THEN "parsed"
    ELSE "JSONDecodeError"

\* json.loads(data): the structure parsed
json_loads_value(x) ==
    PyDict(<<Item("a", IF x.quoted_value THEN PyStr("1") ELSE PyInt("1"))>>)

\* _apply_fixes(s), the four substitutions in their order: every single
\* quote becomes a double quote; a comma that stands before the closing
\* brace is removed (one comma of a run, the last); bare keys are quoted
\* (there is none); the value after the colon is quoted
_apply_fixes(x) ==
    [x EXCEPT !.quotes = "double",
              !.commas = IF x.closed /\ @ > 0 THEN @ - 1 ELSE @,
              !.quoted_value = TRUE]

\* for attempt in range(3)
ATTEMPTS == 3

\* the loop from one attempt on: json.loads, and on JSONDecodeError the
\* fixes and the next attempt; any other exception leaves the function
RECURSIVE fix_invalid_json_attempt(_, _)
fix_invalid_json_attempt(data, attempt) ==
    IF attempt >= ATTEMPTS THEN PyNone
    ELSE CASE json_loads_outcome(data) = "parsed" -> json_loads_value(data)
           [] json_loads_outcome(data) = "JSONDecodeError" ->
                 fix_invalid_json_attempt(_apply_fixes(data), attempt + 1)
           [] OTHER -> Raised(json_loads_outcome(data))

fix_invalid_json(data) == fix_invalid_json_attempt(data, 0)

\* what a call of a pure function leaves alone
system == <<cache, ttl, rowCount, msgs, pc, hash, cur, err, acq, result,
            retRow, insertedRow, retry, unique_counter, started, winners,
            request, sync, apiProc, workerProc>>

\* the call returns, or raises, what the function gives for the argument
Return(out) ==
    /\ ~pure.done
    /\ pure' = [pure EXCEPT !.out = out, !.done = TRUE]
    /\ UNCHANGED system

\* the arguments of the date parsers: dates, numbers, None and texts
DateInputs == {PyDatetime(ISO_TEXT), PyInt("0"), PyInt("5"), PyNone}
                  \cup {PyStr(s) : s \in Texts \ {"None", "[...]"}}

call_parse_datetime ==
    /\ pure.fn = "parse_datetime"
    /\ Return(parse_datetime(pure.arg))

call_DateTimeParser_parse ==
    /\ pure.fn = "DateTimeParser.parse"
    /\ Return(DateTimeParser_parse(pure.arg))

call_deep_clean ==
    /\ pure.fn = "deep_clean"
    /\ Return(deep_clean(pure.arg))

call_DataNormalizer_deep_clean ==
    /\ pure.fn = "DataNormalizer.deep_clean"
    /\ Return(DataNormalizer_deep_clean(pure.arg))

call_pre_extract_timestamps ==
    /\ pure.fn = "_pre_extract_timestamps"
    /\ Return(_pre_extract_timestamps(pure.arg))

\* the hash of a payload and the hash of its variant
call_generate ==
    /\ pure.fn = "generate"
    /\ Return(PyList(<<generate(pure.arg, EVENT_NAME),
                       generate(pure.alt, EVENT_NAME)>>))

\* remove_empty_values applied once, and applied to its own result
call_remove_empty_values ==
    /\ pure.fn = "remove_empty_values"
    /\ Return(PyList(<<remove_empty_values(pure.arg),
                       remove_empty_values(remove_empty_values(pure.arg))>>))

call_fix_invalid_json ==
    /\ pure.fn = "fix_invalid_json"
    /\ Return(fix_invalid_json(pure.arg))

\* ------------------------------------ main.py: answers to an exception

\* the texts of the exceptions a request runs into
ExceptionTexts == {"connection refused", "relation events does not exist"}

\* f"{prefix}{text}": the text that begins with the prefix and goes on
\* with the inserted text
fstring(prefix, text) == Val("str", prefix, <<PyStr(text)>>)

\* JSONResponse(status_code, content)
JSONResponse(status_code, content) ==
    PyDict(<<Item("status_code", PyInt(status_code)), Item("content", content)>>)

\* global_exception_handler(request, exc), the handler of the outermost
\* layer: the exception is logged and answered with a fixed body
global_exception_handler(exc) ==
    JSONResponse("500", PyDict(<<Item("detail", PyStr("Internal server error"))>>))

\* add_process_time_header, around every route and every middleware
\* registered before it: an exception raised below its call_next is
\* answered with its text in the body
add_process_time_header(exc) ==
    JSONResponse("500", PyDict(<<Item("message", PyStr("An error occurred")),
                                 Item("details", PyStr(exc.s))>>))

\* the except branch of create_event_unique: HTTPException(500) with the
\* text of the exception in its detail (after a fixed Russian prefix, here
\* in Latin letters), which the exception handler of the router layer
\* renders as {"detail": detail}
create_event_unique_except(exc) ==
    JSONResponse("500",
        PyDict(<<Item("detail", fstring("Oshibka sokhraneniya sobytiya: ", exc.s))>>))

\* the two requests differ in the text of the exception only
FailureCalls(fn) ==
    {[fn |-> fn, arg |-> PyStr(e[1]), alt |-> PyStr(e[2]), out |-> PyNone,
      done |-> FALSE] : e \in ExceptionTexts \X ExceptionTexts}

\* a route, or a middleware below add_process_time_header, raises
call_add_process_time_header ==
    /\ pure.fn = "add_process_time_header"
    /\ Return(PyList(<<add_process_time_header(pure.arg),
                       add_process_time_header(pure.alt)>>))

\* a statement inside the try of create_event_unique raises
call_create_event_unique_except ==
    /\ pure.fn = "create_event_unique.except"
    /\ Return(PyList(<<create_event_unique_except(pure.arg),
                       create_event_unique_except(pure.alt)>>))

\* ------------------------------------------ models/pydentic_models.py

\* the texts a caller sends as event_hash: 64 hexadecimal characters, 64
\* characters that are no hexadecimal digits, and a short text
HEX64 == "aaaaaaaaaaaaaaaaaaaaaaaaaaaaaaaaaaaaaaaaaaaaaaaaaaaaaaaaaaaaaaaa"
ZED64 == "zzzzzzzzzzzzzzzzzzzzzzzzzzzzzzzzzzzzzzzzzzzzzzzzzzzzzzzzzzzzzzzz"
SuppliedHashes == {HEX64, ZED64, "abc"}

\* len(value) of a text or of a hexdigest
len(value) ==
    CASE value.t = "sha3_256" -> 64
      [] value.t = "str" /\ value.s \in {HEX64, ZED64} -> 64
      [] value.t = "str" /\ value.s = "abc" -> 3
      [] value.t = "str" /\ value.s = "ok" -> 2
      [] OTHER -> 0

\* JSONSerializer.serialize_for_hashing is not in the repository
\* (utils/serializer.py has JsonSerializer.serialize): the canonical text
\* of the value
serialize_for_hashing(value) == json_dumps(value)

\* EventHashService.generate_unique_fingerprint is not in the repository:
\* either the digest of the serialized text, or, the class having no such
\* attribute, an AttributeError
generate_unique_fingerprint(serialized, ok) ==
    IF ok THEN sha3_256(serialized) ELSE Raised("AttributeError")

\* convert_bytes_recursive(data): bytes are decoded, dicts and lists are
\* rebuilt, everything else is returned as it is
RECURSIVE convert_bytes_recursive(_)
convert_bytes_recursive(data) ==
    CASE data.t = "bytes" -> PyStr(data.s)
      [] data.t = "dict" ->
            PyDict([i \in 1..Len(data.kids) |->
                Item(data.kids[i].k, convert_bytes_recursive(data.kids[i].v))])
      [] data.t = "list" ->
            PyList([i \in 1..Len(data.kids) |->
                convert_bytes_recursive(data.kids[i])])
      [] OTHER -> data

\* type_mapping, in the order of its items
type_mapping == <<[event_type |-> "purchase", fields |-> {"order_id", "amount"}],
                  [event_type |-> "pageview", fields |-> {"url", "page_view"}],
                  [event_type |-> "login", fields |-> {"username", "password"}]>>

\* field in data
contains(data, field) == \E i \in 1..Len(data.kids) : data.kids[i].k = field

\* _detect_event_type(data): the first event type of type_mapping all of
\* whose fields are in data, None when there is none
_detect_event_type(data) ==
    LET hits == {i \in 1..Len(type_mapping) :
                    \A field \in type_mapping[i].fields : contains(data, field)}
    IN  IF hits = {} THEN PyNone
        ELSE PyStr(type_mapping[CHOOSE i \in hits : \A j \in hits : i <= j].event_type)

\* EventBase.preprocess_and_hash(data), the validator that runs before the
\* fields are read: the payload is replaced by raw_data, timestamps,
\* event_hash and event_type, the hash being the fingerprint of raw_data
\* and timestamps; except Exception raises ValueError
EventBase_preprocess_and_hash(data, ok) ==
    LET raw_data == data
        cleaned == convert_bytes_recursive(deep_clean(data))
        timestamps == _pre_extract_timestamps(cleaned)
        serialized == serialize_for_hashing(
                          PyDict(<<Item("raw_data", raw_data),
                                   Item("timestamps", timestamps)>>))
        event_hash == generate_unique_fingerprint(serialized, ok)
    IN  IF \/ data.t # "dict"
           \/ cleaned.t # "dict"
           \/ timestamps.t = "raise"
           \/ event_hash.t = "raise"
        THEN Raised("ValueError")
        ELSE PyDict(<<Item("raw_data", raw_data),
                      Item("timestamps", timestamps),
                      Item("event_hash", event_hash),
                      Item("event_type", _detect_event_type(cleaned))>>)

\* EventCreate.validate_required_fields, the validator that runs after
\* them: len(self.event_hash) != 64 raises ValueError
validate_required_fields(self) ==
    IF len(dict_get(self, "event_hash")) # 64 THEN Raised("ValueError") ELSE self

\* EventCreate(**data): the validated event, or a ValidationError for the
\* ValueError of a validator
EventCreate(data, ok) ==
    LET before == EventBase_preprocess_and_hash(data, ok) IN
    IF before.t = "raise" THEN Raised("ValidationError")
    ELSE IF validate_required_fields(before).t = "raise"
         THEN Raised("ValidationError")
         ELSE validate_required_fields(before)

\* the payloads validated: one field, with and without an event_hash
EventPayloads ==
    {PyDict(<<Item("a", PyStr("ok"))>>)}
        \cup {PyDict(<<Item("a", PyStr("ok")), Item("event_hash", PyStr(h))>>) :
                h \in SuppliedHashes}

\* the keys _detect_event_type looks for, and action
DetectKeys == <<"order_id", "amount", "url", "page_view", "username",
                "password", "action">>

\* the payloads typed: every combination of presence of these keys
DetectPayloads ==
    {PyDict(SelectSeq([i \in 1..Len(DetectKeys) |-> Item(DetectKeys[i], PyStr("ok"))],
                      LAMBDA it : it.k \in present)) :
        present \in SUBSET {DetectKeys[i] : i \in 1..Len(DetectKeys)}}

call_EventCreate ==
    /\ pure.fn = "EventCreate"
    /\ \E ok \in BOOLEAN : Return(EventCreate(pure.arg, ok))

call_detect_event_type ==
    /\ pure.fn = "_detect_event_type"
    /\ Return(_detect_event_type(pure.arg))

\* ------------------------------------------------------ create_tables.py

\* Base.metadata.drop_all followed by Base.metadata.create_all: table events
\* is dropped with every row it holds and created anew, empty
drop_all(rc) == [h \in Hashes |-> 0]

\* python create_tables.py: asyncio.run(recreate_tables()), run against the
\* database the API and the worker use; the cache is not touched
recreate_tables ==
    /\ rowCount' = drop_all(rowCount)
    /\ UNCHANGED <<cache, ttl, msgs, pc, hash, cur, err, acq, result, retRow,
                   insertedRow, retry, unique_counter, started, winners,
                   request, sync, apiProc, workerProc, pure>>

\* ------------------------------------------------------- specifications

RepositoryStep(F) ==
    \E t \in Tasks :
        \/ \E h \in Hashes : save_event(t, h)
        \/ safe_save_lock(t, F)
        \/ safe_save_callback(t, F)
        \/ safe_save_rollback(t, F)

IsDuplicateStep(F) ==
    \E t \in Tasks :
        \/ \E h \in Hashes : is_duplicate(t, h)
        \/ is_duplicate_cache(t, F)
        \/ is_duplicate_store(t, F)

UniqueStep(F) ==
    \E t \in Tasks :
        \/ \E h \in Hashes : create_event_unique(t, h)
        \/ unique_lock(t, F)
        \/ unique_commit(t, F)
        \/ unique_mark(t, F)
        \/ unique_fail(t, F)

ApiStep(F) == \E t \in Tasks, h \in Hashes : create_event(t, h, F)

WorkerStep(F) ==
    \E t \in Tasks :
        \/ \E m \in MsgIds : handle_event_message(t, m)
        \/ repo_create_event_cache(t, F)
        \/ repo_create_event_store(t, F)
        \/ repo_create_event_insert(t, F)
        \/ handle_event_ack(t)
        \/ handle_event_reject(t)

EnvStep == \E h \in Hashes : Expire(h)

\* the repository (save_event, is_duplicate) and POST /events/unique/, each
\* call to the cache or the store free to fail, lock keys free to expire
Next ==
    \/ RepositoryStep(BOOLEAN)
    \/ IsDuplicateStep(BOOLEAN)
    \/ UniqueStep(BOOLEAN)
    \/ EnvStep

Spec == Init /\ [][Next]_vars

\* every path that inserts rows: the repository, POST /events/unique/ and
\* the worker fed by POST /events/.  The calls of the repository and of the
\* endpoint to cache and store are free to fail, lock keys free to expire.
NextAll ==
    \/ RepositoryStep(BOOLEAN)
    \/ UniqueStep(BOOLEAN)
    \/ ApiStep({TRUE})
    \/ WorkerStep({TRUE})
    \/ EnvStep

SpecAll == Init /\ [][NextAll]_vars

\* the repository and POST /events/unique/ with cache and store available
\* and no lock key expiring: no call fails, so no rollback runs
NextOK ==
    \E t \in Tasks :
        \/ \E h \in Hashes : save_event(t, h)
        \/ safe_save_lock(t, {TRUE})
        \/ safe_save_callback(t, {TRUE})
        \/ \E h \in Hashes : create_event_unique(t, h)
        \/ unique_lock(t, {TRUE})
        \/ unique_commit(t, {TRUE})
        \/ unique_mark(t, {TRUE})

SpecOK == Init /\ [][NextOK]_vars

\* the repository and POST /events/unique/ with cache and store available,
\* every save free to be cancelled at its awaits
NextCancel ==
    \/ NextOK
    \/ \E t \in Tasks : cancel(t)

SpecCancel == Init /\ [][NextCancel]_vars

\* the worker fed by POST /events/ and by other publishers, next to
\* POST /events/unique/ working on the same fingerprints
NextWorker ==
    \/ ApiStep({TRUE})
    \/ WorkerStep(BOOLEAN)
    \/ publish_invalid
    \/ UniqueStep(BOOLEAN)
    \/ EnvStep

SpecWorker == Init /\ [][NextWorker]_vars

\* the relay with broker, cache and store available: POST /events/, the
\* worker, and POST /events/unique/ next to them
NextRelay ==
    \/ ApiStep({TRUE})
    \/ WorkerStep({TRUE})
    \/ UniqueStep({TRUE})

\* the event loop runs every task that can take its next step, and the
\* consumer hands every ready message to the handler
Running(t) ==
    \/ \E m \in MsgIds : handle_event_message(t, m)
    \/ repo_create_event_cache(t, {TRUE})
    \/ repo_create_event_store(t, {TRUE})
    \/ repo_create_event_insert(t, {TRUE})
    \/ handle_event_ack(t)
    \/ handle_event_reject(t)
    \/ unique_lock(t, {TRUE})
    \/ unique_commit(t, {TRUE})
    \/ unique_mark(t, {TRUE})
    \/ unique_fail(t, {TRUE})

FairRelay == Init /\ [][NextRelay]_vars /\ \A t \in Tasks : WF_vars(Running(t))

\* the smoke test next to the relay, broker, cache and store available and
\* the worker running
NextSmoke ==
    \/ send_test_message
    \/ NextRelay

FairSmoke == Init /\ [][NextSmoke]_vars /\ \A t \in Tasks : WF_vars(Running(t))

\* the external synchronisation, the external source, the session and the
\* store free to fail, lock keys free to expire
SyncStep(R, F) ==
    \/ publish_sync
    \/ handle_sync_message(F)
    \/ _fetch_external_events(R)
    \/ _fetch_external_events_item(F)
    \/ handle_sync_ack

NextSync ==
    \/ SyncStep(Fetches, BOOLEAN)
    \/ EnvStep

SpecSync == Init /\ [][NextSync]_vars

\* the external synchronisation with session, cache and store available and
\* no lock key expiring
NextSyncOK == SyncStep(Fetches, {TRUE})

SpecSyncOK == Init /\ [][NextSyncOK]_vars

\* POST /events/ with the broker free to fail, next to POST /events/unique/
\* taking locks and writing rows
NextApi ==
    \/ ApiStep(BOOLEAN)
    \/ UniqueStep(BOOLEAN)

SpecApi == Init /\ [][NextApi]_vars

\* the HTTP surface: requests through the middlewares, the health probe and
\* POST /events/, every dependency free to be unreachable
HttpStep(D) ==
    \E t \in Tasks :
        \/ \E method \in Methods, b \in Bodies : http_request(t, method, b)
        \/ health_check(t, D)

NextHttp ==
    \/ HttpStep(Deps)
    \/ ApiStep(BOOLEAN)

SpecHttp == Init /\ [][NextHttp]_vars

\* the two consumers of the worker: events_queue fed by POST /events/ and
\* by other publishers, external_sync_queue fed by its trigger.  The
\* session of the trigger's handler is free to fail, the external source
\* to answer with a page, a status or not at all; an event's handler
\* raises when the insert meets the row of a concurrent one.
NextConsume ==
    \/ ApiStep({TRUE})
    \/ WorkerStep({TRUE})
    \/ publish_invalid
    \/ publish_sync
    \/ handle_sync_message(BOOLEAN)
    \/ _fetch_external_events(Fetches)
    \/ _fetch_external_events_item({TRUE})
    \/ handle_sync_ack

SpecConsume == Init /\ [][NextConsume]_vars

\* the two processes from start to end, every startup and release step
\* free to fail, the worker free to be cancelled at every await
LifespanStep(F) ==
    \/ lifespan_create_tables(F)
    \/ lifespan_redis(F)
    \/ lifespan_rabbit(F)
    \/ lifespan_shutdown
    \/ lifespan_close_redis(F)
    \/ lifespan_close_rabbit(F)
    \/ lifespan_dispose(F)

MainStep(F) ==
    \/ main_get_redis
    \/ main_connect(F)
    \/ main_consume(F)
    \/ main_session
    \/ main_cancel
    \/ main_finally(F)

NextProcesses ==
    \/ LifespanStep(BOOLEAN)
    \/ MainStep(BOOLEAN)

SpecProcesses == Init /\ [][NextProcesses]_vars

\* the listing endpoint, its query free to fail, next to the external
\* synchronisation writing the rows it lists
ListStep(F) == \E t \in Tasks : get_events(t, F)

NextList ==
    \/ ListStep(BOOLEAN)
    \/ SyncStep(Fetches, {TRUE})

SpecList == Init /\ [][NextList]_vars

\* every path that writes the store: the repository, POST /events/unique/,
\* the worker fed by POST /events/, the external synchronisation, and the
\* script that recreates the tables
NextStore ==
    \/ RepositoryStep(BOOLEAN)
    \/ UniqueStep(BOOLEAN)
    \/ ApiStep({TRUE})
    \/ WorkerStep({TRUE})
    \/ SyncStep({"ok"}, {TRUE})
    \/ recreate_tables

SpecStore == Init /\ [][NextStore]_vars

\* the lock keys over time: is_duplicate next to POST /events/unique/,
\* whose calls to cache and store are free to fail, the clock running
NextLock ==
    \/ IsDuplicateStep({TRUE})
    \/ UniqueStep(BOOLEAN)
    \/ Tick

SpecLock == Init /\ [][NextLock]_vars

\* the pure functions, each called once on one of the arguments drawn for it
Calls(fn, args) ==
    {[fn |-> fn, arg |-> a, alt |-> PyNone, out |-> PyNone, done |-> FALSE] :
        a \in args}

PureCalls ==
    Calls("parse_datetime", DateInputs)
        \cup Calls("DateTimeParser.parse", DateInputs)
        \cup Calls("fix_invalid_json", JsonTexts)
        \cup Calls("deep_clean", Payloads)
        \cup Calls("DataNormalizer.deep_clean", Payloads)
        \cup Calls("_pre_extract_timestamps", StampMaps)
        \cup HashCalls
        \cup Calls("remove_empty_values", NestedPayloads)
        \cup Calls("EventCreate", EventPayloads)
        \cup Calls("_detect_event_type", DetectPayloads)
        \cup FailureCalls("add_process_time_header")
        \cup FailureCalls("create_event_unique.except")

InitPure ==
    /\ InitSystem
    /\ pure \in PureCalls

NextPure ==
    \/ call_parse_datetime
    \/ call_DateTimeParser_parse
    \/ call_fix_invalid_json
    \/ call_deep_clean
    \/ call_DataNormalizer_deep_clean
    \/ call_pre_extract_timestamps
    \/ call_generate
    \/ call_remove_empty_values
    \/ call_EventCreate
    \/ call_detect_event_type
    \/ call_add_process_time_header
    \/ call_create_event_unique_except

SpecPure == InitPure /\ [][NextPure]_vars

\* ------------------------------------------------------------ properties

\* C1: in every reachable state the store holds at most one row per
\* event_hash, whatever the interleaving of the create attempts and also
\* after the lock of the hash was deleted, has expired or could not be asked
AtMostOneRowPerHash == \A h \in Hashes : rowCount[h] <= 1

\* a second insert of a stored event_hash is being refused by the store
SecondInsertRefused ==
    \E t \in Tasks :
        /\ pc[t] \in {"ss_rollback", "u_fail"}
        /\ err[t] = "IntegrityError"
        /\ acq[t] = "true"
        /\ rowCount[hash[t]] = 1

\* C2: check_and_lock is an atomic set-if-absent.  A call returns true
\* exactly when the key is absent, and leaves the key present; of the calls
\* made on a key while it lives, at most one has returned true.
ExactlyOneWinner ==
    /\ [](\A h \in Hashes : winners[h] <= 1 /\ (winners[h] = 1 => h \in cache))
    /\ [][\A t \in Tasks :
            (pc[t] \in {"ss_lock", "u_lock"} /\ acq'[t] # acq[t])
            => /\ (acq'[t] = "true") <=> (hash[t] \notin cache)
               /\ hash[t] \in cache']_vars

\* two callers raced on one hash: one holds the lock, the other got false
OneWonOneLost ==
    \E p \in Tasks, q \in Tasks :
        /\ p # q
        /\ hash[p] = hash[q]
        /\ pc[p] \in {"ss_commit", "u_commit"} /\ acq[p] = "true"
        /\ pc[q] = "done" /\ acq[q] = "false"
        /\ winners[hash[p]] = 1

\* C3: of the attempts that race on one event_hash with no lock and no row
\* for it, one acquires the lock, one row is persisted, and every other
\* attempt observes a duplicate outcome (409, or a "duplicate" indicator)
RaceLosersObserveDuplicate ==
    /\ \A h \in Hashes : winners[h] <= 1 /\ rowCount[h] <= 1
    /\ \A p \in Tasks, q \in Tasks :
        (/\ p # q /\ hash[p] = hash[q]
         /\ pc[p] \in {"ss_commit", "u_commit", "u_mark"} /\ acq[p] = "true"
         /\ pc[q] = "done" /\ acq[q] = "false")
        => result[q] \in {"409", "duplicate"}

CacheFailuresWrapped ==
    \A t \in Tasks : pc[t] = "done" => result[t] # "CacheError"

\* C6: save_event returns the "saved" indicator only with the row it has
\* just persisted; a fingerprint already locked or stored inserts nothing
\* and is answered with the "duplicate" indicator
SavedMeansPersistedRow ==
    \A t \in Tasks :
        (pc[t] = "done" /\ result[t] \in {"saved", "duplicate"})
        => IF insertedRow[t] THEN result[t] = "saved" /\ retRow[t]
                             ELSE result[t] = "duplicate"

\* C7: unique_counter grows by one exactly when a save_event call returns
\* having inserted a row, and is left alone by every other step
CounterCountsInserts ==
    [][\A t \in Tasks :
        unique_counter'[t] = unique_counter[t] +
            (IF pc[t] # "done" /\ pc'[t] = "done" /\ result'[t] = "saved"
                /\ insertedRow'[t]
             THEN 1 ELSE 0)]_vars

\* C8: is_duplicate answers True when the cache holds the key, else True
\* when the store holds a row of the hash, else False, and writes neither
CompositeIsDuplicate ==
    [][\A t \in Tasks :
        /\ (pc[t] = "id_cache" /\ pc'[t] # "id_cache")
           => /\ cache' = cache /\ rowCount' = rowCount
              /\ result'[t] # "CacheError"
                 => IF hash[t] \in cache
                    THEN pc'[t] = "done" /\ result'[t] = "True"
                    ELSE pc'[t] = "id_store"
        /\ (pc[t] = "id_store" /\ pc'[t] # "id_store")
           => /\ cache' = cache /\ rowCount' = rowCount
              /\ pc'[t] = "done"
              /\ result'[t] # "StoreError"
                 => result'[t] = IF rowCount[hash[t]] > 0 THEN "True"
                                                          ELSE "False"]_vars

\* the lock has expired, the row exists, and the cache has just answered
\* that it does not hold the key: the store is asked next
ExpiredLockStoredRow ==
    \E t \in Tasks :
        pc[t] = "id_store" /\ hash[t] \notin cache /\ rowCount[hash[t]] = 1

RelayDelivers ==
    /\ [](\A m \in MsgIds : msgs[m].api => msgs[m].state # "unroutable")
    /\ \A m \in MsgIds :
        msgs[m].api ~> rowCount[preprocess_and_hash(msgs[m].hash)] = 1

\* an accepted event went through the queue and the worker persisted it
RelayedAndSaved ==
    \E m \in MsgIds, t \in Tasks :
        /\ msgs[m].api /\ msgs[m].state = "acked" /\ msgs[m].outcome = "saved"
        /\ cur[t] = m /\ pc[t] = "done" /\ insertedRow[t]
        /\ rowCount[preprocess_and_hash(msgs[m].hash)] = 1

\* C11: a delivery of external_sync_queue is acknowledged whenever the
\* external fetch could be made, however many items failed validation or
\* were duplicates, and is rejected without requeue exactly when the
\* external call could not be made or returned a failure
SyncDisposition ==
    sync.pc = "done" =>
        /\ sync.fetch = "ok" => sync.msg = "acked"
        /\ (sync.msg = "dead") <=>
                \/ sync.fetch \in {"status", "unreachable"}
                \/ sync.raised = "Exception"

\* C12: on a non-success status of the external source the fetch routine
\* raises ExternalServerError to its caller and persists no item
FetchStatusRaises502 ==
    (sync.fetch = "status" /\ sync.pc \in {"ack", "done"}) =>
        /\ sync.raised = "ExternalServerError"
        /\ sync.rows = {}

\* C13: every item of a fetched page is processed: when the fetch has
\* returned, the loop went through the whole page, and every item that
\* validates has its row, whatever stood before it in the page
EveryItemProcessed ==
    (sync.fetch = "ok" /\ sync.pc \in {"ack", "done"}) =>
        /\ sync.pos = Len(sync.page)
        /\ \A i \in 1..Len(sync.page) :
                sync.page[i] \in Hashes => rowCount[sync.page[i]] = 1

\* C14: POST /events/ answers 422 to a schema-validation failure, 503 to a
\* failure to connect to the broker or to publish on it, 500 to any other
\* failure, and 202 only when the publish succeeded
StatusByOutcome ==
    \A t \in Tasks :
        pc[t] = "done" =>
            /\ err[t] = "validation" => result[t] = "422"
            /\ err[t] \in {"connect", "publish"} => result[t] = "503"
            /\ err[t] = "other" => result[t] = "500"
            /\ result[t] = "202" =>
                    /\ err[t] = "none"
                    /\ \E m \in MsgIds : msgs[m].api /\ msgs[m].hash = hash[t]

\* the messages a step publishes
Published == {m \in MsgIds : msgs[m].state = "none" /\ msgs'[m].state # "none"}

BrokerFailureLeavesNoLock ==
    [][\A t \in Tasks, h \in Hashes :
        (create_event(t, h, BOOLEAN) /\ result'[t] = "503")
        => (cache' = cache /\ rowCount' = rowCount)]_vars

\* a request was answered 503 while the cache held the lock of another
\* event, and none for the event of the request
RefusedNextToLock ==
    \E t \in Tasks :
        /\ pc[t] = "done" /\ result[t] = "503" /\ err[t] = "publish"
        /\ hash[t] \notin cache
        /\ cache # {}

\* C17: a POST/PUT/PATCH request with a body is answered 422 when the body
\* cannot be parsed after repair and 400 when any other processing error
\* occurs, in both cases without the route handler being invoked, and the
\* handler is invoked only when the repaired body parsed
RepairMiddlewareStatus ==
    \A t \in Tasks :
        LET rq == request[t]
            parsed == /\ decodes(rq.body)
                      /\ json_loads(fix_string(strip_trailing_commas(rq.body)))
        IN
        (pc[t] = "done" /\ rq.path = "/" /\ rq.body # "empty"
            /\ rq.method \in {"POST", "PUT", "PATCH"}) =>
            /\ (decodes(rq.body) /\ ~parsed) => result[t] = "422"
            /\ ~decodes(rq.body) => result[t] = "400"
            /\ result[t] \in {"422", "400"} => ~rq.handled
            /\ rq.handled => parsed

\* C20: GET /events/health answers 200 exactly when store, cache and broker
\* are all reachable, and 503 with a detail naming a failure for each
\* non-empty set of unreachable dependencies
HealthStatus ==
    \A t \in Tasks :
        (pc[t] = "done" /\ request[t].path = "/events/health") =>
            /\ (result[t] = "200") <=> (request[t].down = {})
            /\ request[t].down # {} =>
                    /\ result[t] = "503"
                    /\ request[t].detail \in request[t].down

\* C18: when the lifespan of the API process has ended, whatever the outcome
\* of the startup steps and of each release step, no handle that was opened
\* is left without its release call: cache client, broker connection and
\* engine pool are each closed, or their own release call failed
LifespanReleasesAll ==
    apiProc.pc = "ended" =>
        /\ apiProc.redis # "open"
        /\ apiProc.rabbit # "open"
        /\ apiProc.engine # "open"

\* C19: when the worker's main task has ended, by cancellation or by a
\* failure at startup or mid-run, the broker connection has been closed and
\* the database engine has been disposed
WorkerShutdownReleases ==
    (workerProc.pc = "ended" /\ workerProc.raised = "none") =>
        /\ workerProc.rabbit # "open"
        /\ workerProc.engine # "open"

\* C21: a POST /events/unique/ request whose fingerprint has neither a lock
\* nor a row goes on to be answered 201 (unless no fingerprint can be
\* generated for it, 422), leaving one row and one lock for the fingerprint;
\* a request answered 409 changes neither the store nor the lock keys of
\* the cache
FreshRequestCreated ==
    [][\A t \in Tasks :
        /\ \A h \in Hashes :
            (create_event_unique(t, h) /\ h \notin cache /\ rowCount[h] = 0)
            => (pc'[t] = "u_lock" \/ result'[t] = "422")
        /\ (pc[t] = "u_mark" /\ result'[t] = "201")
            => (rowCount'[hash[t]] = 1 /\ hash[t] \in cache')
        /\ (pc[t] = "u_lock" /\ result'[t] = "409")
            => (rowCount' = rowCount /\ cache' = cache)]_vars

\* C22: a store-level error inside a repository operation reaches the
\* caller as DatabaseError and as no other error: no call ends with the raw
\* exception of the store, no call that held the lock and failed in its
\* persistence callback ends with another kind of error, and a call that
\* ends with an error has inserted no row
StoreErrorsAsDatabaseError ==
    \A t \in Tasks :
        pc[t] = "done" =>
            /\ result[t] # "StoreError"
            /\ ~(acq[t] = "true"
                    /\ result[t] \in {"DeduplicationError", "CacheError"})
            /\ result[t] \in {"DatabaseError", "DeduplicationError", "CacheError"}
                    => ~insertedRow[t]

\* C23: the listing endpoint accepts exactly page >= 1 and 1 <= per_page <=
\* 1000, with defaults 1 and 100, and answers 422 to every other value
\* without querying the store; for accepted values it queries with offset
\* (page - 1) * per_page and limit per_page, so that a response holds at
\* most per_page events and page 1 starts at offset 0
ListingPagination ==
    \A t \in Tasks :
        LET rq == request[t]
            page == IF rq.page = {} THEN 1 ELSE CHOOSE v \in rq.page : TRUE
            per_page == IF rq.per_page = {} THEN 100
                        ELSE CHOOSE v \in rq.per_page : TRUE
            accepted == page >= 1 /\ per_page >= 1 /\ per_page <= 1000
        IN
        (pc[t] = "done" /\ rq.path = "/events/sort") =>
            /\ ~accepted => (result[t] = "422" /\ ~rq.queried)
            /\ accepted =>
                /\ result[t] # "422"
                /\ rq.queried
                /\ rq.offset = (page - 1) * per_page
                /\ rq.limit = per_page
                /\ rq.count <= per_page
                /\ page = 1 => rq.offset = 0

\* the second page of one event each was listed from a store of two rows
SecondPageListed ==
    \E t \in Tasks :
        /\ pc[t] = "done" /\ request[t].path = "/events/sort"
        /\ request[t].page = {2} /\ request[t].per_page = {1}
        /\ result[t] = "200"
        /\ request[t].offset = 1 /\ request[t].count = 1
        /\ rowCount["h1"] + rowCount["h2"] = 2

\* C24: persisted events are permanent: no step of the system takes a row
\* out of the store, the number of rows stored under each event_hash never
\* decreases
StoredRowsOnlyGrow ==
    [][\A h \in Hashes : rowCount'[h] >= rowCount[h]]_vars

\* C25: a lock key lives 604800 seconds from its creation: a key in the
\* cache has between 1 and 604800 seconds left, the clock alone counts them
\* down, and neither an existence check (is_duplicate) nor a check_and_lock
\* on a key that exists changes the seconds any key has left
LockExpiryFixed ==
    /\ [](\A h \in Hashes : (h \in cache <=> ttl[h] > 0) /\ ttl[h] <= LOCK_EX)
    /\ [][\A t \in Tasks :
            /\ (pc[t] = "id_cache" /\ pc'[t] # "id_cache") => ttl' = ttl
            /\ (pc[t] = "u_lock" /\ pc'[t] # "u_lock" /\ hash[t] \in cache)
               => (ttl' = ttl /\ cache' = cache)]_vars
    /\ [][Tick => \A h \in Hashes :
            /\ ttl'[h] = remaining(ttl[h], TickLen)
            /\ (ttl[h] <= TickLen) => h \notin cache']_vars

\* check_and_lock was refused on a key that has lived a part of its
\* time-to-live and still has the rest of it
RefusedOnAgeingLock ==
    \E t \in Tasks :
        /\ pc[t] = "done" /\ acq[t] = "false"
        /\ 0 < ttl[hash[t]] /\ ttl[hash[t]] < LOCK_EX

\* C30: parse_datetime returns a datetime it is given as it is; a text it
\* parses by the first of ISO-8601, the seven formats in their order, and
\* the date found in the text by the pattern and parsed in its turn; it
\* raises ValueError when all of them fail, also when the text the pattern
\* found is not a date
ParseDatetimeStrategies ==
    (pure.fn = "parse_datetime" /\ pure.done) =>
        LET a == pure.arg
            s == strip(str(a))
            m == re_search(s)
        IN  CASE a.t = "datetime" -> pure.out = a
              [] a.t = "int" -> pure.out.t = "datetime"
              [] OTHER ->
                 IF fromisoformat(s) # NoDate
                 THEN pure.out = PyDatetime(fromisoformat(s))
                 ELSE IF first_format(s) # 0
                 THEN pure.out = PyDatetime(strptime(s, DATE_FORMATS[first_format(s)]))
                 ELSE IF m # "" /\ fromisoformat(m) # NoDate
                 THEN pure.out = PyDatetime(fromisoformat(m))
                 ELSE pure.out = Raised("ValueError")

\* the text after k passes of the fixes
RECURSIVE Repaired(_, _)
Repaired(x, k) == IF k = 0 THEN x ELSE Repaired(_apply_fixes(x), k - 1)

\* C28: fix_invalid_json never raises; it returns the parsed structure when
\* the text parses as given or after one of its three repairs, and None
\* otherwise
JsonRepairOutcome ==
    (pure.fn = "fix_invalid_json" /\ pure.done) =>
        /\ pure.out.t # "raise"
        /\ IF \E k \in 0..ATTEMPTS : json_loads_outcome(Repaired(pure.arg, k)) = "parsed"
           THEN pure.out.t = "dict"
           ELSE pure.out = PyNone

\* the keys of a dict
KeysOf(d) == {d.kids[i].k : i \in 1..Len(d.kids)}

\* an item that is to go: its value is None, a blank text or an empty
\* collection, or its key has one of the four prefixes
EmptyValue(v) ==
    \/ v.t = "NoneType"
    \/ v.t = "str" /\ strip(v.s) = ""
    \/ v.t \in {"list", "dict"} /\ v.kids = <<>>

ToDrop(it) ==
    \/ EmptyValue(it.v)
    \/ startswith(it.k, {"__", "javascript", "xml", "internal_"})

\* C27: deep_clean of a dict drops the items whose value is None, a blank
\* text or an empty collection and the items whose key begins with __,
\* javascript, xml or internal_, and keeps every other item
DeepCleanDrops ==
    (pure.fn = "deep_clean" /\ pure.done) =>
        /\ pure.out.t = "dict"
        /\ KeysOf(pure.out) =
              {pure.arg.kids[i].k : i \in {j \in 1..Len(pure.arg.kids) :
                                            ~ToDrop(pure.arg.kids[j])}}

\* a value that parses as a point in time: a datetime, a number, a text
\* that is a date or holds one
PointInTime(v) ==
    \/ v.t \in {"datetime", "int"}
    \/ /\ v.t = "str"
       /\ \/ fromisoformat(strip(v.s)) # NoDate
          \/ first_format(strip(v.s)) # 0
          \/ fromisoformat(re_search(strip(v.s))) # NoDate

\* C29: the extraction over the eight candidate keys never raises, and its
\* result holds exactly the candidate keys present in the map whose value
\* parses as a point in time, each with a datetime
ExtractTimestampsTotal ==
    (pure.fn = "_pre_extract_timestamps" /\ pure.done) =>
        /\ pure.out.t = "dict"
        /\ KeysOf(pure.out) =
              {timestamp_fields[i] : i \in {j \in 1..Len(timestamp_fields) :
                  /\ timestamp_fields[j] \in KeysOf(pure.arg)
                  /\ PointInTime(dict_get(pure.arg, timestamp_fields[j]))}}
        /\ \A i \in 1..Len(pure.out.kids) : pure.out.kids[i].v.t = "datetime"

\* C26: two payloads that differ only in the order of their keys, or in a
\* field whose value is a blank text, an empty collection or None, have
\* the same event_hash under the same event name
HashDeterminism ==
    (pure.fn = "generate" /\ pure.done) => pure.out.kids[1] = pure.out.kids[2]

\* a value that holds no empty text, empty collection or None, at any depth
RECURSIVE NoEmptyInside(_)
NoEmptyInside(v) ==
    CASE v.t = "dict" ->
            \A i \in 1..Len(v.kids) :
                ~_is_empty(v.kids[i].v) /\ NoEmptyInside(v.kids[i].v)
      [] v.t = "list" ->
            \A i \in 1..Len(v.kids) :
                ~_is_empty(v.kids[i]) /\ NoEmptyInside(v.kids[i])
      [] OTHER -> TRUE

\* C31: the result of remove_empty_values holds no empty text, empty
\* collection or None at any depth, and remove_empty_values applied to it
\* returns it unchanged
RemoveEmptyIdempotent ==
    (pure.fn = "remove_empty_values" /\ pure.done) =>
        /\ NoEmptyInside(pure.out.kids[1])
        /\ pure.out.kids[2] = pure.out.kids[1]

\* the event_hash a payload carries, None when it carries none
supplied_hash(data) == dict_get(data, "event_hash")

\* the texts of 64 hexadecimal characters among the supplied ones
Hex64Texts == {HEX64}

\* C32: validation of a payload keeps a supplied event_hash of 64
\* hexadecimal characters as the event's event_hash, rejects the event
\* when the supplied event_hash is no such text, and, when none is
\* supplied, gives the event the hash the fingerprint service generates.
SuppliedHashKept ==
    (pure.fn = "EventCreate" /\ pure.done) =>
        CASE supplied_hash(pure.arg).t = "NoneType" ->
                /\ pure.out.t = "dict"
                /\ dict_get(pure.out, "event_hash").t = "sha3_256"
          [] supplied_hash(pure.arg).s \in Hex64Texts ->
                /\ pure.out.t = "dict"
                /\ dict_get(pure.out, "event_hash") = supplied_hash(pure.arg)
          [] OTHER -> pure.out.t = "raise"

\* the label of the action rule for the value of the action field
action_label(value) == IF value.s = "ok" THEN "action_ok" ELSE "action_"

\* C33: _detect_event_type returns the label of the first rule that
\* matches, in the order purchase (order_id and amount), pageview (url and
\* page_view), login (username and password), action_<value> (action), and
\* default_event when no rule matches; it never returns None.
DetectEventTypeRules ==
    (pure.fn = "_detect_event_type" /\ pure.done) =>
        pure.out =
            PyStr(CASE contains(pure.arg, "order_id") /\ contains(pure.arg, "amount")
                          -> "purchase"
                    [] contains(pure.arg, "url") /\ contains(pure.arg, "page_view")
                          -> "pageview"
                    [] contains(pure.arg, "username") /\ contains(pure.arg, "password")
                          -> "login"
                    [] contains(pure.arg, "action")
                          -> action_label(dict_get(pure.arg, "action"))
                    [] OTHER -> "default_event")

\* C34: no internal detail reaches the client: two requests that differ
\* only in the text of the exception they run into get the same response,
\* status 500 with the generic body, from the routes and from the
\* middlewares alike.
GenericFailureResponse ==
    (/\ pure.fn \in {"add_process_time_header", "create_event_unique.except"}
     /\ pure.done) =>
        /\ pure.out.kids[1] = pure.out.kids[2]
        /\ pure.out.kids[1] = global_exception_handler(pure.arg)

\* C35: the message send_test_message publishes lies on the queue the
\* worker consumes, so with broker and worker running it is eventually
\* handed to handle_event_message and settled, acknowledged or rejected.
SmokeTestSettled ==
    \A m \in MsgIds :
        (msgs[m].key = TEST_QUEUE /\ msgs[m].state # "none")
            ~> msgs[m].state \in {"acked", Rejected}

RollbackDeletesOwnLock ==
    [][\A t \in Tasks :
        (/\ pc[t] \in {"ss_lock", "ss_rollback", "u_lock", "u_fail"}
         /\ acq[t] # "true"
         /\ pc'[t] = "done")
        => ~(hash[t] \in cache /\ hash[t] \notin cache')]_vars

\* C38: POST /events/unique/ is all-or-nothing: when it answers 500 after
\* it acquired the lock, it leaves no row of its own in the store and no
\* lock in the cache; in particular a failure after the commit does not
\* leave the committed row with its lock deleted.
UniqueAllOrNothing ==
    [][\A t \in Tasks :
        (pc[t] = "u_fail" /\ pc'[t] = "done" /\ result'[t] = "500")
        => /\ ~insertedRow[t]
           /\ hash[t] \notin cache']_vars

\* a save is at the insert: the lock was acquired by this call
AtInsert(t) == pc[t] \in {"ss_commit", "u_commit"}

SaveInProgress(h) ==
    \E t \in Tasks : hash[t] = h /\ pc[t] \notin {"idle", "done"}

\* C40: no orphan lock: whenever no save for h is in progress, the cache
\* holds a lock for h only if the store holds a row for h, also after a
\* save was cancelled between lock and commit.
NoOrphanLock ==
    \A h \in Hashes :
        (~SaveInProgress(h) /\ h \in cache) => rowCount[h] >= 1

====
